---- MODULE Spec2Model ----
(***************************************************************************)
(* Model of the x402 payment flow of the agent SDK:                        *)
(*   createPaymentPayload  (src/src/x402/wallet.ts, src/unnamed/part_001)  *)
(*   FacilitatorClient     (src/src/x402/facilitatorClient.ts)             *)
(*   x402Fetch             (src/src/x402/wallet.ts:74-104)                 *)
(* JavaScript values are tagged records so that undefined, truthiness,     *)
(* `||`, `!!` and template interpolation behave as they do in the code.    *)
(***************************************************************************)
EXTENDS Integers, Sequences, FiniteSets, TLC

(* ---------------------------------------------------------------------- *)
(* Bounds                                                                  *)
(* ---------------------------------------------------------------------- *)
NumCalls == 2
MaxTime == 2

Calls == 1..NumCalls

(* ---------------------------------------------------------------------- *)
(* JavaScript values                                                       *)
(* ---------------------------------------------------------------------- *)
JUndef == [t |-> "undefined"]
JNaN == [t |-> "NaN"]
JBool(b) == [t |-> "boolean", v |-> b]
JStr(s) == [t |-> "string", v |-> s]
JNum(n) == [t |-> "number", v |-> n]

\* ToBoolean: undefined, false, "", 0 and NaN are falsy
Truthy(x) ==
  CASE x.t = "undefined" -> FALSE
    [] x.t = "NaN" -> FALSE
    [] x.t = "boolean" -> x.v
    [] x.t = "string" -> x.v # ""
    [] x.t = "number" -> x.v # 0
    [] OTHER -> TRUE

\* a || b
JOr(a, b) == IF Truthy(a) THEN a ELSE b

\* ${x} inside a template literal, and String(x)
JToString(x) ==
  CASE x.t = "undefined" -> "undefined"
    [] x.t = "NaN" -> "NaN"
    [] x.t = "boolean" -> (IF x.v THEN "true" ELSE "false")
    [] x.t = "string" -> x.v
    [] x.t = "number" -> ToString(x.v)
    [] OTHER -> "[object Object]"

\* a + b on numbers; undefined operand gives NaN
JAdd(a, b) ==
  IF a.t = "number" /\ b.t = "number" THEN JNum(a.v + b.v) ELSE JNaN

\* JSON.stringify({ error: msg })
JSONStringifyError(msg) == "{\"error\":\"" \o msg \o "\"}"

StartsWith(s, p) == Len(s) >= Len(p) /\ SubSeq(s, 1, Len(p)) = p

\* an Error object: e.message, and String(e) per Error.prototype.toString
Exception(name, message) == [name |-> name, message |-> message]
ExceptionToString(e) ==
  IF e.message = "" THEN e.name ELSE e.name \o ": " \o e.message
\* e?.message || String(e)
ExceptionText(e) ==
  JToString(JOr(JStr(e.message), JStr(ExceptionToString(e))))

(* ---------------------------------------------------------------------- *)
(* Data the environment supplies                                           *)
(* ---------------------------------------------------------------------- *)
\* PaymentRequirements objects a resource server may put in a 402 body
Requirements(network, asset, payTo, amount, timeout, relayer) ==
  [t |-> "object", network |-> network, asset |-> asset, payTo |-> payTo,
   maxAmountRequired |-> amount, maxTimeoutSeconds |-> timeout,
   relayerContract |-> relayer]

ReqsA ==
  Requirements(JStr("test"), JStr("0xAAA"), JStr("0xBBB"), JStr("1000000"),
               JNum(3600), JStr("0xCCC"))
ReqsNoAmount ==
  Requirements(JStr("test"), JStr("0xAAA"), JStr("0xBBB"), JUndef,
               JNum(3600), JStr("0xCCC"))
ReqsNoTimeout ==
  Requirements(JStr("test"), JStr("0xAAA"), JStr("0xBBB"), JStr("5"),
               JUndef, JStr("0xCCC"))
ReqsSamples == {ReqsA, ReqsNoAmount, ReqsNoTimeout}

\* body of the first response: unparsable, or a JSON object
BodyUnparsable == [parse |-> "fail"]
Body402(pr, r) == [parse |-> "ok", paymentRequirements |-> pr, requirements |-> r]
FirstBodies ==
  {BodyUnparsable, Body402(JUndef, JUndef), Body402(JBool(FALSE), ReqsA)}
    \cup {Body402(r, JUndef) : r \in ReqsSamples}
    \cup {Body402(JUndef, ReqsA), Body402(ReqsNoTimeout, ReqsA)}

\* an HTTP response as fetch resolves it; src tells which request it answers
HttpResponse(src, status, statusText, body) ==
  [kind |-> "response", src |-> src, status |-> status,
   statusText |-> statusText, body |-> body]
\* fetch rejecting (DNS failure, connection reset, abort)
FetchReject(e) == [kind |-> "reject", error |-> e]
ResOk(res) == res.status >= 200 /\ res.status <= 299

NetErrors ==
  {Exception("TypeError", "fetch failed"), Exception("Error", "")}

FirstOutcomes ==
  {HttpResponse("first", 200, "OK", BodyUnparsable),
   HttpResponse("first", 500, "Internal Server Error", Body402(ReqsA, JUndef)),
   FetchReject(Exception("TypeError", "fetch failed"))}
    \cup {HttpResponse("first", 402, "Payment Required", b) : b \in FirstBodies}

RetryOutcomes ==
  {HttpResponse("retry", 200, "OK", BodyUnparsable),
   HttpResponse("retry", 402, "Payment Required", Body402(ReqsA, JUndef)),
   FetchReject(Exception("TypeError", "fetch failed"))}

\* /verify answers
VerifyBody(isValid, is_valid, payer, invalidReason, invalid_reason) ==
  [parse |-> "ok", isValid |-> isValid, is_valid |-> is_valid, payer |-> payer,
   invalidReason |-> invalidReason, invalid_reason |-> invalid_reason]
VerifyBodies ==
  {BodyUnparsable,
   VerifyBody(JBool(TRUE), JUndef, JStr("0xDDD"), JUndef, JUndef),
   VerifyBody(JUndef, JBool(TRUE), JUndef, JUndef, JUndef),
   VerifyBody(JBool(FALSE), JStr("yes"), JStr("0xDDD"), JStr(""), JStr("legacy")),
   VerifyBody(JBool(FALSE), JUndef, JUndef, JStr("bad signature"), JUndef),
   VerifyBody(JUndef, JBool(FALSE), JUndef, JUndef, JStr("expired")),
   VerifyBody(JUndef, JUndef, JUndef, JUndef, JUndef),
   VerifyBody(JBool(FALSE), JUndef, JUndef, JStr("Network error: rpc down"), JUndef),
   VerifyBody(JBool(FALSE), JUndef, JUndef, JStr("HTTP 429: slow down"), JUndef)}
VerifyOutcomes ==
  {FetchReject(e) : e \in NetErrors}
    \cup {HttpResponse("verify", 500, "Internal Server Error", BodyUnparsable),
          HttpResponse("verify", 404, "Not Found", BodyUnparsable)}
    \cup {HttpResponse("verify", 200, "OK", b) : b \in VerifyBodies}

\* /settle answers
SettleBody(success, transaction, transactionHash, network, errorReason, error_reason) ==
  [parse |-> "ok", success |-> success, transaction |-> transaction,
   transactionHash |-> transactionHash, network |-> network, payer |-> JUndef,
   errorReason |-> errorReason, error_reason |-> error_reason]
SettleBodies ==
  {BodyUnparsable,
   SettleBody(JBool(TRUE), JStr("0xEEE"), JUndef, JUndef, JUndef, JUndef),
   SettleBody(JBool(TRUE), JUndef, JStr("0xFFF"), JStr("main"), JUndef, JUndef),
   SettleBody(JBool(TRUE), JUndef, JUndef, JUndef, JUndef, JUndef),
   SettleBody(JBool(TRUE), JStr(""), JUndef, JUndef, JUndef, JUndef),
   SettleBody(JBool(FALSE), JUndef, JUndef, JUndef, JStr("insufficient funds"), JUndef),
   SettleBody(JBool(FALSE), JStr("0xEEE"), JUndef, JUndef, JUndef, JStr("nonce used")),
   SettleBody(JUndef, JUndef, JUndef, JUndef, JStr("Network error: rpc down"), JUndef)}
SettleOutcomes ==
  {FetchReject(e) : e \in NetErrors}
    \cup {HttpResponse("settle", 503, "Service Unavailable", BodyUnparsable)}
    \cup {HttpResponse("settle", 200, "OK", b) : b \in SettleBodies}

\* what the signer does when asked: fail on the address, fail on the
\* signature, or sign
SignerErrors == {Exception("Error", "signTypedData not supported by this wallet provider")}
SignerOutcomes ==
  {[kind |-> "addressThrows", error |-> e] : e \in SignerErrors}
    \cup {[kind |-> "signThrows", error |-> e] : e \in SignerErrors}
    \cup {[kind |-> "signed", signature |-> JStr("0xSIG")]}

Nonces == {"0x01", "0x02"}

(* ---------------------------------------------------------------------- *)
(* createPaymentPayload                                                    *)
(* ---------------------------------------------------------------------- *)
\* the Authorization object literal
Authorization(requirements, from, nowSec, nonce) ==
  [from |-> from,
   to |-> requirements.payTo,
   value |-> requirements.maxAmountRequired,
   validAfter |-> JNum(0),
   validBefore |-> JAdd(JNum(nowSec), requirements.maxTimeoutSeconds),
   nonce |-> JStr(nonce)]

\* the returned PaymentPayload envelope
PaymentPayload(requirements, authorization, signature) ==
  [x402Version |-> JNum(1),
   scheme |-> JStr("exact"),
   network |-> requirements.network,
   token |-> requirements.asset,
   payload |-> [authorization |-> authorization, signature |-> signature]]

Thrown(e) == [threw |-> TRUE, error |-> e]
Returned(v) == [threw |-> FALSE, value |-> v]

\* variant: a signer failure is swallowed and an unsigned payload returned
createPaymentPayloadSwallowing(requirements, from, nowSec, nonce, signer) ==
  Returned(PaymentPayload(requirements,
             Authorization(requirements, from, nowSec, nonce),
             IF signer.kind = "signed" THEN signer.signature ELSE JStr("")))

\* the whole builder given what the signer does: a rejection of
\* getAddress or signTypedData rejects the builder's promise
createPaymentPayload(requirements, from, nowSec, nonce, signer) ==
  IF signer.kind = "signed"
  THEN Returned(PaymentPayload(requirements,
                  Authorization(requirements, from, nowSec, nonce),
                  signer.signature))
  ELSE Thrown(signer.error)

(* ---------------------------------------------------------------------- *)
(* FacilitatorClient                                                       *)
(* ---------------------------------------------------------------------- *)
\* x.toString(): a TypeError when x is undefined
ToStringThrows(x) == x.t = "undefined"
ToStringError ==
  Exception("TypeError", "Cannot read properties of undefined (reading 'toString')")

\* the `normalized` object literal of verify and settle
NormalizeThrows(payload) ==
  \/ ToStringThrows(payload.payload.authorization.value)
  \/ ToStringThrows(payload.payload.authorization.validAfter)
  \/ ToStringThrows(payload.payload.authorization.validBefore)

Normalized(payload) ==
  [payload EXCEPT
     !.payload.authorization.value = JStr(JToString(@)),
     !.payload.authorization.validAfter = JStr(JToString(@)),
     !.payload.authorization.validBefore = JStr(JToString(@))]

\* the request verify/settle hand to fetch
FacilitatorRequest(cfg, path, payload, requirements) ==
  [op |-> "fetch", url |-> cfg.url \o path, method |-> "POST",
   body |-> [paymentPayload |-> Normalized(payload),
             paymentRequirements |-> requirements]]

\* variant: the non-2xx reason without its "HTTP " prefix
verifyTryBareStatus(payload, requirements, net) ==
  IF NormalizeThrows(payload) THEN Thrown(ToStringError)
  ELSE IF net.kind = "reject" THEN Thrown(net.error)
  ELSE IF ~ResOk(net)
    THEN Returned([isValid |-> FALSE, payer |-> JUndef,
                   invalidReason |-> JStr(ToString(net.status) \o ": " \o net.statusText)])
  ELSE IF net.body.parse = "fail"
    THEN Thrown(Exception("SyntaxError", "Unexpected token < in JSON at position 0"))
  ELSE Returned([isValid |-> Truthy(JOr(net.body.isValid, net.body.is_valid)),
                 payer |-> net.body.payer,
                 invalidReason |-> JOr(net.body.invalidReason, net.body.invalid_reason)])

\* variant: only the camelCase keys of the answer are read
verifyTryCamelOnly(payload, requirements, net) ==
  IF NormalizeThrows(payload) THEN Thrown(ToStringError)
  ELSE IF net.kind = "reject" THEN Thrown(net.error)
  ELSE IF ~ResOk(net)
    THEN Returned([isValid |-> FALSE, payer |-> JUndef,
                   invalidReason |-> JStr("HTTP " \o ToString(net.status)
                                            \o ": " \o net.statusText)])
  ELSE IF net.body.parse = "fail"
    THEN Thrown(Exception("SyntaxError", "Unexpected token < in JSON at position 0"))
  ELSE Returned([isValid |-> Truthy(net.body.isValid),
                 payer |-> net.body.payer,
                 invalidReason |-> net.body.invalidReason])

\* the try block of verify; net is what fetch does with the request
verifyTry(payload, requirements, net) ==
  IF NormalizeThrows(payload) THEN Thrown(ToStringError)
  ELSE IF net.kind = "reject" THEN Thrown(net.error)
  ELSE IF ~ResOk(net)
    THEN Returned([isValid |-> FALSE, payer |-> JUndef,
                   invalidReason |-> JStr("HTTP " \o ToString(net.status)
                                            \o ": " \o net.statusText)])
  ELSE IF net.body.parse = "fail"
    THEN Thrown(Exception("SyntaxError", "Unexpected token < in JSON at position 0"))
  ELSE Returned([isValid |-> Truthy(JOr(net.body.isValid, net.body.is_valid)),
                 payer |-> net.body.payer,
                 invalidReason |-> JOr(net.body.invalidReason, net.body.invalid_reason)])

\* variant: verify without its catch clause
verifyWithoutCatch(payload, requirements, net) ==
  verifyTry(payload, requirements, net)

\* verify with its catch clause
verify(payload, requirements, net) ==
  LET r == verifyTry(payload, requirements, net) IN
  IF r.threw
  THEN Returned([isValid |-> FALSE, payer |-> JUndef,
                 invalidReason |-> JStr("Network error: " \o ExceptionText(r.error))])
  ELSE r

\* the try block of settle
settleTry(payload, requirements, net) ==
  IF NormalizeThrows(payload) THEN Thrown(ToStringError)
  ELSE IF net.kind = "reject" THEN Thrown(net.error)
  ELSE IF ~ResOk(net)
    THEN Returned([success |-> FALSE, transaction |-> JUndef,
                   network |-> requirements.network, payer |-> JUndef,
                   errorReason |-> JStr("HTTP " \o ToString(net.status)
                                          \o ": " \o net.statusText)])
  ELSE IF net.body.parse = "fail"
    THEN Thrown(Exception("SyntaxError", "Unexpected token < in JSON at position 0"))
  ELSE Returned([success |-> Truthy(net.body.success),
                 transaction |-> JOr(net.body.transaction, net.body.transactionHash),
                 network |-> JOr(net.body.network, requirements.network),
                 payer |-> net.body.payer,
                 errorReason |-> JOr(net.body.errorReason, net.body.error_reason)])

\* variant: settle without its catch clause
settleWithoutCatch(payload, requirements, net) ==
  settleTry(payload, requirements, net)

\* settle with its catch clause
settle(payload, requirements, net) ==
  LET r == settleTry(payload, requirements, net) IN
  IF r.threw
  THEN Returned([success |-> FALSE, transaction |-> JUndef,
                 network |-> requirements.network, payer |-> JUndef,
                 errorReason |-> JStr("Network error: " \o ExceptionText(r.error))])
  ELSE r

\* constructor: rejects a URL that is neither http:// nor https://, and
\* strips one trailing slash
EndsWith(s, p) == Len(s) >= Len(p) /\ SubSeq(s, Len(s) - Len(p) + 1, Len(s)) = p
\* variant: the URL is kept as given
FacilitatorClientNewKeepingSlash(cfg) ==
  IF ~StartsWith(cfg.url, "http://") /\ ~StartsWith(cfg.url, "https://")
  THEN Thrown(Exception("Error", "Invalid facilitator URL: " \o cfg.url))
  ELSE Returned(cfg)

FacilitatorClientNew(cfg) ==
  IF ~StartsWith(cfg.url, "http://") /\ ~StartsWith(cfg.url, "https://")
  THEN Thrown(Exception("Error", "Invalid facilitator URL: " \o cfg.url))
  ELSE Returned([cfg EXCEPT !.url = IF EndsWith(cfg.url, "/")
                                    THEN SubSeq(cfg.url, 1, Len(cfg.url) - 1)
                                    ELSE cfg.url])

FacilitatorConfigs ==
  {[url |-> "https://f.example/"], [url |-> "http://f.example"],
   [url |-> "https://f.example//"], [url |-> "ftp://bad"]}

(* ---------------------------------------------------------------------- *)
(* x402Fetch: requests, responses, decisions                               *)
(* ---------------------------------------------------------------------- *)
\* a Headers object / a headers init: a set of <<name, value>> pairs
HeadersOf(pairs) == [t |-> "headers", h |-> pairs]
\* new Headers(x) for x a headers init or {}
HeadersNew(x) == IF x.t = "headers" THEN x ELSE HeadersOf({})
\* headers.set(name, value)
HeadersSet(hs, name, value) ==
  HeadersOf({p \in hs.h : p[1] # name} \cup {<<name, value>>})

\* input: a URL string or a Request object; init: RequestInit or undefined
UrlInput(url) == [kind |-> "url", url |-> url]
RequestInput(url, method, headers) ==
  [kind |-> "Request", url |-> url, method |-> method, headers |-> headers]
RequestInit(method, headers, body) ==
  [t |-> "object", method |-> method, headers |-> headers, body |-> body]

\* opts.wallet: an ethers Wallet has the address property, another Signer
\* only has getAddress()
EthersWallet ==
  [kind |-> "Wallet", address |-> JStr("0xPAYER"), getAddress |-> JStr("0xPAYER"),
   signTypedData |-> TRUE]
OtherSigner ==
  [kind |-> "Signer", address |-> JUndef, getAddress |-> JStr("0xPAYER"),
   signTypedData |-> TRUE]
\* a WalletProviderSigner over a wallet provider that has no signTypedData
ProviderSignerWithoutTypedData ==
  [kind |-> "Signer", address |-> JUndef, getAddress |-> JStr("0xPAYER"),
   signTypedData |-> FALSE]

\* variant: a signer without the capability resolves with an empty signature
SignerOutcomesForEmptySignature(wallet, outcomes) ==
  IF wallet.signTypedData THEN outcomes
  ELSE {[kind |-> "signed", signature |-> JStr("")]}

\* what the signer may do: without the capability signTypedData throws
SignerOutcomesFor(wallet, outcomes) ==
  IF wallet.signTypedData THEN outcomes
  ELSE {o \in outcomes : o.kind = "signThrows"}

\* the two copies of the builder: wallet.ts reads wallet.address,
\* the Signer copy awaits signer.getAddress()
FromAddress(builder, wallet) ==
  IF builder = "wallet.address" THEN wallet.address ELSE wallet.getAddress

CallInputs ==
  {[input |-> UrlInput("https://api.example/paid"), init |-> JUndef,
    wallet |-> EthersWallet, builder |-> "wallet.address"],
   [input |-> UrlInput("https://api.example/paid"),
    init |-> RequestInit(JStr("POST"),
                         HeadersOf({<<"accept", "application/json">>,
                                    <<"x402-payment", "stale">>}),
                         JStr("q=1")),
    wallet |-> OtherSigner, builder |-> "getAddress"],
   [input |-> RequestInput("https://api.example/paid", "GET",
                           HeadersOf({<<"authorization", "Bearer k">>})),
    init |-> JUndef,
    wallet |-> OtherSigner, builder |-> "wallet.address"],
   [input |-> UrlInput("https://api.example/paid"), init |-> JUndef,
    wallet |-> ProviderSignerWithoutTypedData, builder |-> "getAddress"]}

\* variant: every error status starts the payment
IsPaymentRequiredAnyError(first) == first.status >= 400

\* first.status !== 402 returns first
IsPaymentRequired(first) == first.status = 402

\* try { body = await first.json(); reqs = body?.paymentRequirements ||
\* body?.requirements } catch {}
ParseRequirements(body) ==
  IF body.parse = "fail" THEN JUndef
  ELSE JOr(body.paymentRequirements, body.requirements)

\* new Response(JSON.stringify({ error }), { status, headers })
SyntheticResponse(status, error) ==
  [kind |-> "response", src |-> "synthetic", status |-> status,
   statusText |-> "", body |-> [text |-> JSONStringifyError(error)]]

\* variant: the missing requirements reported with the status of the 402
NoRequirementsResponseAs402 == SyntheticResponse(402, "402 without payment requirements")

NoRequirementsResponse == SyntheticResponse(500, "402 without payment requirements")

\* variant: the verify result is not looked at
VerifyFailedNever(v) == FALSE

VerifyFailed(v) == ~v.isValid
\* variant: a rejected payment reported as a server error
VerifyFailedResponseAs500(v) ==
  SyntheticResponse(500, "x402 verify failed: " \o JToString(v.invalidReason))

VerifyFailedResponse(v) ==
  SyntheticResponse(402, "x402 verify failed: " \o JToString(v.invalidReason))

\* variant: only the success flag is looked at
SettleFailedIgnoringTransaction(st) == ~st.success

SettleFailed(st) == ~st.success \/ ~Truthy(st.transaction)
SettleFailedResponse(st) ==
  SyntheticResponse(500, "x402 settle failed: " \o JToString(st.errorReason))

\* init?.headers
InitHeaders(init) == IF init.t = "undefined" THEN JUndef ELSE init.headers

\* variant: the payment header is not set
RetryHeadersWithoutProof(init, transaction) ==
  HeadersNew(JOr(InitHeaders(init), [t |-> "object"]))

\* headers = new Headers(init?.headers || {}); headers.set('x402-payment', tx)
RetryHeaders(init, transaction) ==
  HeadersSet(HeadersNew(JOr(InitHeaders(init), [t |-> "object"])),
             "x402-payment", JToString(transaction))

\* { ...(init || {}), headers }
RetryInit(init, transaction) ==
  IF init.t = "undefined"
  THEN RequestInit(JUndef, RetryHeaders(init, transaction), JUndef)
  ELSE [init EXCEPT !.headers = RetryHeaders(init, transaction)]

\* the request fetch(input, init) issues: members of init win over those of
\* a Request given as input, and init.headers replaces the Request's headers
EffectiveRequest(input, init) ==
  [url |-> input.url,
   method |-> IF init.t = "object" /\ init.method.t # "undefined" THEN init.method.v
              ELSE IF input.kind = "Request" THEN input.method ELSE "GET",
   headers |-> IF init.t = "object" /\ init.headers.t = "headers" THEN init.headers
               ELSE IF input.kind = "Request" THEN input.headers ELSE HeadersOf({}),
   body |-> IF init.t = "object" THEN init.body ELSE JUndef]

\* outbound events, in the order the invocation produced them
FetchEvent(step, input, init) ==
  [step |-> step, op |-> "fetch", input |-> input, init |-> init]
SignEvent(wallet) == [step |-> "sign", op |-> "signer", wallet |-> wallet]
FacilitatorEvent(step, req) == [step |-> step, op |-> "fetch", request |-> req]

ReturnResponse(r) == [kind |-> "response", value |-> r]
ThrowError(e) == [kind |-> "throw", error |-> e]

(* ---------------------------------------------------------------------- *)
(* State                                                                   *)
(* ---------------------------------------------------------------------- *)
VARIABLES
  setup,        \* the facilitator config given, how the caller calls, and
                \* the answers the signer and the servers may give
  facilitator,  \* result of new FacilitatorClient(cfg)
  now,          \* Math.floor(Date.now() / 1000)
  pc,           \* per invocation: the await x402Fetch is suspended at
  call,         \* per invocation: input, init, opts.wallet
  first,        \* per invocation: the local `first`
  reqs,         \* per invocation: the local `reqs`
  pending,      \* per invocation: now and nonce of the builder in progress
  signerRes,    \* per invocation: what the signer did when asked
  payload,      \* per invocation: the local `payload`
  verifyNet,    \* per invocation: what fetch did with the POST to /verify
  verifyRes,    \* per invocation: the local `verify`
  settleNet,    \* per invocation: what fetch did with the POST to /settle
  settleRes,    \* per invocation: the local `settle`
  log,          \* per invocation: outbound requests and signer invocations
  result        \* per invocation: what the caller got

\* session keys kept by a SessionKeyManager and used through SessionKeyWallets
VARIABLES
  clock,        \* Math.floor(Date.now() / 1000) of the session-key classes
  awaited,      \* TRUE when the caller awaits each call before the next one
  calls,        \* number of calls made so far
  db,           \* DatabaseAdapter: per session key address, its stored row
  wallet,       \* per session key address, the SessionKey its wallet holds
  op,           \* per caller: the call in progress, its locals and outcome
  forwarded,    \* transactions handed to Wallet.sendTransaction, in order
  ledger        \* per session key address, the values of the transactions
                \* validateTransaction accepted since the last reset

\* the other session-key and agent utilities, each with the state it keeps
VARIABLES
  helper,       \* SessionKeyHelper: the generated key, the time, the last check
  provider,     \* a wallet provider: its session key, daily record and sends
  store,        \* the session_keys table of the database example
  query,        \* FetchAIAgent.query: its position, requests and outcome
  tools         \* the langchain module: its providers and what callers got

x402Vars == <<setup, facilitator, now, pc, call, first, reqs, pending, signerRes, payload,
              verifyNet, verifyRes, settleNet, settleRes, log, result>>
sessionVars == <<clock, awaited, calls, db, wallet, op, forwarded, ledger>>
\* everything outside the x402 flow
otherVars == <<sessionVars, helper, provider, store, query, tools>>
\* everything outside the session keys
notSessionVars == <<x402Vars, helper, provider, store, query, tools>>
notHelperVars == <<x402Vars, sessionVars, provider, store, query, tools>>
notProviderVars == <<x402Vars, sessionVars, helper, store, query, tools>>
notStoreVars == <<x402Vars, sessionVars, helper, provider, query, tools>>
notQueryVars == <<x402Vars, sessionVars, helper, provider, store, tools>>
notToolsVars == <<x402Vars, sessionVars, helper, provider, store, query>>

vars == <<x402Vars, otherVars>>

NoValue == [kind |-> "none"]

\* the parts of the SDK a specification does not exercise stay as constructed
SessionKeysUnused ==
  /\ clock = 0
  /\ awaited = TRUE
  /\ calls = 0
  /\ db = NoValue
  /\ wallet = NoValue
  /\ op = NoValue
  /\ forwarded = <<>>
  /\ ledger = NoValue
X402Unused ==
  /\ setup = NoValue /\ facilitator = NoValue /\ now = 0
  /\ pc = NoValue /\ call = NoValue /\ first = NoValue /\ reqs = NoValue
  /\ pending = NoValue /\ signerRes = NoValue /\ payload = NoValue
  /\ verifyNet = NoValue /\ verifyRes = NoValue /\ settleNet = NoValue
  /\ settleRes = NoValue /\ log = NoValue /\ result = NoValue
HelperUnused == helper = NoValue
ProviderUnused == provider = NoValue
StoreUnused == store = NoValue
QueryUnused == query = NoValue
ToolsUnused == tools = NoValue
ElsewhereUnused ==
  /\ SessionKeysUnused /\ HelperUnused /\ ProviderUnused /\ StoreUnused
  /\ QueryUnused /\ ToolsUnused

Terminal == {"Done", "Failed", "Thrown"}

\* every answer of the sample sets, one x402Fetch awaited at a time
FullSetup(cfg) ==
  [cfg |-> cfg, sequential |-> TRUE, ticks |-> MaxTime, calls |-> CallInputs,
   first |-> FirstOutcomes, nonces |-> Nonces, signer |-> SignerOutcomes,
   verify |-> VerifyOutcomes, settle |-> SettleOutcomes, retry |-> RetryOutcomes]

\* state right after construction, whatever the setup
InitState ==
  /\ facilitator = FacilitatorClientNew(setup.cfg)
  /\ now = 1000
  /\ pc = [i \in Calls |-> "idle"]
  /\ call = [i \in Calls |-> NoValue]
  /\ first = [i \in Calls |-> NoValue]
  /\ reqs = [i \in Calls |-> NoValue]
  /\ pending = [i \in Calls |-> NoValue]
  /\ signerRes = [i \in Calls |-> NoValue]
  /\ payload = [i \in Calls |-> NoValue]
  /\ verifyNet = [i \in Calls |-> NoValue]
  /\ verifyRes = [i \in Calls |-> NoValue]
  /\ settleNet = [i \in Calls |-> NoValue]
  /\ settleRes = [i \in Calls |-> NoValue]
  /\ log = [i \in Calls |-> <<>>]
  /\ result = [i \in Calls |-> NoValue]
  /\ ElsewhereUnused

Init ==
  /\ setup \in {FullSetup(cfg) : cfg \in FacilitatorConfigs}
  /\ InitState

\* variant: one result slot shared by all invocations
FinishSharedSlot(i, state, r) ==
  /\ pc' = [pc EXCEPT ![i] = state]
  /\ result' = [j \in Calls |-> r]

\* the invocation ends: the promise settles with r
Finish(i, state, r) ==
  /\ pc' = [pc EXCEPT ![i] = state]
  /\ result' = [result EXCEPT ![i] = r]

\* the clock advances
Tick ==
  /\ now < 1000 + setup.ticks
  /\ now' = now + 1
  /\ UNCHANGED <<otherVars, setup, facilitator, pc, call, first, reqs, pending, signerRes, payload,
                 verifyNet, verifyRes, settleNet, settleRes, log, result>>

\* x402Fetch(input, init, opts) up to `await fetch(input, init)`
Call(i) ==
  /\ pc[i] = "idle"
  /\ ~facilitator.threw
  /\ \E c \in setup.calls :
       /\ call' = [call EXCEPT ![i] = c]
       /\ log' = [log EXCEPT ![i] = <<FetchEvent("request", c.input, c.init)>>]
  /\ pc' = [pc EXCEPT ![i] = "Initial"]
  /\ UNCHANGED <<otherVars, setup, facilitator, now, first, reqs, pending, signerRes, payload,
                 verifyNet, verifyRes, settleNet, settleRes, result>>

\* the first fetch settles; on 402 the body is parsed and the builder runs
\* up to its await on the signer
FirstResponse(i) ==
  /\ pc[i] = "Initial"
  /\ \E out \in setup.first :
       IF out.kind = "reject"
       THEN /\ Finish(i, "Thrown", ThrowError(out.error))
            /\ UNCHANGED <<first, reqs, pending, log>>
       ELSE /\ first' = [first EXCEPT ![i] = out]
            /\ IF ~IsPaymentRequired(out)
               THEN /\ Finish(i, "Done", ReturnResponse(out))
                    /\ UNCHANGED <<reqs, pending, log>>
               ELSE LET r == ParseRequirements(out.body) IN
                    /\ reqs' = [reqs EXCEPT ![i] = r]
                    /\ IF ~Truthy(r)
                       THEN /\ Finish(i, "Failed", ReturnResponse(NoRequirementsResponse))
                            /\ UNCHANGED <<pending, log>>
                       ELSE /\ \E n \in setup.nonces :
                                 pending' = [pending EXCEPT ![i] = [nowSec |-> now, nonce |-> n]]
                            /\ log' = [log EXCEPT ![i] = Append(@, SignEvent(call[i].wallet))]
                            /\ pc' = [pc EXCEPT ![i] = "Authorizing"]
                            /\ UNCHANGED result
  /\ UNCHANGED <<otherVars, setup, facilitator, now, call, signerRes, payload,
                 verifyNet, verifyRes, settleNet, settleRes>>

\* x402Fetch from `const settle = await ...` on, st being what settle
\* settled with and lg the events so far
AfterSettle(i, st, lg) ==
  /\ settleRes' = [settleRes EXCEPT ![i] = st]
  /\ IF st.threw
     THEN /\ Finish(i, "Thrown", ThrowError(st.error))
          /\ log' = [log EXCEPT ![i] = lg]
     ELSE IF SettleFailed(st.value)
     THEN /\ Finish(i, "Failed", ReturnResponse(SettleFailedResponse(st.value)))
          /\ log' = [log EXCEPT ![i] = lg]
     ELSE /\ log' = [log EXCEPT ![i] = Append(lg,
                       FetchEvent("retry", call[i].input,
                                  RetryInit(call[i].init, st.value.transaction)))]
          /\ pc' = [pc EXCEPT ![i] = "Retrying"]
          /\ UNCHANGED result

\* x402Fetch from `const verify = await ...` on, up to the fetch of settle
AfterVerify(i, p, v, lg) ==
  /\ verifyRes' = [verifyRes EXCEPT ![i] = v]
  /\ IF v.threw
     THEN /\ Finish(i, "Thrown", ThrowError(v.error))
          /\ log' = [log EXCEPT ![i] = lg]
          /\ UNCHANGED settleRes
     ELSE IF VerifyFailed(v.value)
     THEN /\ Finish(i, "Failed", ReturnResponse(VerifyFailedResponse(v.value)))
          /\ log' = [log EXCEPT ![i] = lg]
          /\ UNCHANGED settleRes
     ELSE IF NormalizeThrows(p)
     THEN AfterSettle(i, settle(p, reqs[i], NoValue), lg)
     ELSE /\ log' = [log EXCEPT ![i] = Append(lg,
                       FacilitatorEvent("settle",
                         FacilitatorRequest(facilitator.value, "/settle", p, reqs[i])))]
          /\ pc' = [pc EXCEPT ![i] = "Settling"]
          /\ UNCHANGED <<settleRes, result>>

\* the signer settles; with a payload, verify runs up to its fetch
Signed(i) ==
  /\ pc[i] = "Authorizing"
  /\ \E s \in SignerOutcomesFor(call[i].wallet, setup.signer) :
       /\ s.kind = "addressThrows" => call[i].builder = "getAddress"
       /\ signerRes' = [signerRes EXCEPT ![i] = s]
       /\ LET built == createPaymentPayload(reqs[i],
                         FromAddress(call[i].builder, call[i].wallet),
                         pending[i].nowSec, pending[i].nonce, s) IN
          IF built.threw
          THEN /\ Finish(i, "Thrown", ThrowError(built.error))
               /\ UNCHANGED <<payload, verifyRes, settleRes, log>>
          ELSE /\ payload' = [payload EXCEPT ![i] = built.value]
               /\ IF NormalizeThrows(built.value)
                  THEN AfterVerify(i, built.value,
                                   verify(built.value, reqs[i], NoValue), log[i])
                  ELSE /\ log' = [log EXCEPT ![i] = Append(@,
                                    FacilitatorEvent("verify",
                                      FacilitatorRequest(facilitator.value, "/verify",
                                                         built.value, reqs[i])))]
                       /\ pc' = [pc EXCEPT ![i] = "Verifying"]
                       /\ UNCHANGED <<verifyRes, settleRes, result>>
  /\ pending' = [pending EXCEPT ![i] = NoValue]
  /\ UNCHANGED <<otherVars, setup, facilitator, now, call, first, reqs, verifyNet, settleNet>>

\* the POST to /verify settles
VerifyResponse(i) ==
  /\ pc[i] = "Verifying"
  /\ \E net \in setup.verify :
       /\ verifyNet' = [verifyNet EXCEPT ![i] = net]
       /\ AfterVerify(i, payload[i], verify(payload[i], reqs[i], net), log[i])
  /\ UNCHANGED <<otherVars, setup, facilitator, now, call, first, reqs, pending, signerRes, payload,
                 settleNet>>

\* the POST to /settle settles
SettleResponse(i) ==
  /\ pc[i] = "Settling"
  /\ \E net \in setup.settle :
       /\ settleNet' = [settleNet EXCEPT ![i] = net]
       /\ AfterSettle(i, settle(payload[i], reqs[i], net), log[i])
  /\ UNCHANGED <<otherVars, setup, facilitator, now, call, first, reqs, pending, signerRes, payload,
                 verifyNet, verifyRes>>

\* the retried fetch settles: x402Fetch returns its promise
RetryResponse(i) ==
  /\ pc[i] = "Retrying"
  /\ \E out \in setup.retry :
       IF out.kind = "reject"
       THEN Finish(i, "Thrown", ThrowError(out.error))
       ELSE Finish(i, "Done", ReturnResponse(out))
  /\ UNCHANGED <<otherVars, setup, facilitator, now, call, first, reqs, pending, signerRes, payload,
                 verifyNet, verifyRes, settleNet, settleRes, log>>

\* the caller has its answer and may call again
Forget(i) ==
  /\ pc[i] \in Terminal
  /\ pc' = [pc EXCEPT ![i] = "idle"]
  /\ call' = [call EXCEPT ![i] = NoValue]
  /\ first' = [first EXCEPT ![i] = NoValue]
  /\ reqs' = [reqs EXCEPT ![i] = NoValue]
  /\ signerRes' = [signerRes EXCEPT ![i] = NoValue]
  /\ payload' = [payload EXCEPT ![i] = NoValue]
  /\ verifyNet' = [verifyNet EXCEPT ![i] = NoValue]
  /\ verifyRes' = [verifyRes EXCEPT ![i] = NoValue]
  /\ settleNet' = [settleNet EXCEPT ![i] = NoValue]
  /\ settleRes' = [settleRes EXCEPT ![i] = NoValue]
  /\ log' = [log EXCEPT ![i] = <<>>]
  /\ result' = [result EXCEPT ![i] = NoValue]
  /\ UNCHANGED <<otherVars, setup, facilitator, now, pending>>

\* one caller awaiting each x402Fetch before the next
Sequential(i) == setup.sequential => \A j \in Calls \ {i} : pc[j] = "idle"

Next ==
  \/ Tick
  \/ \E i \in Calls : Sequential(i) /\ Call(i)
  \/ \E i \in Calls : FirstResponse(i)
  \/ \E i \in Calls : Signed(i)
  \/ \E i \in Calls : VerifyResponse(i)
  \/ \E i \in Calls : SettleResponse(i)
  \/ \E i \in Calls : RetryResponse(i)
  \/ \E i \in Calls : Forget(i)

Spec == Init /\ [][Next]_vars

\* every awaited call eventually settles
LiveSpec ==
  /\ Spec
  /\ \A i \in Calls :
       /\ WF_vars(FirstResponse(i))
       /\ WF_vars(Signed(i))
       /\ WF_vars(VerifyResponse(i))
       /\ WF_vars(SettleResponse(i))
       /\ WF_vars(RetryResponse(i))

\* a caller that issues x402Fetch calls without awaiting the previous one,
\* within a second of each other, all through one FacilitatorClient, one
\* signer and one set of answers
ConcurrentSetup ==
  [cfg |-> [url |-> "https://f.example/"], sequential |-> FALSE, ticks |-> 1,
   calls |-> {c \in CallInputs : c.wallet = EthersWallet},
   first |-> {o \in FirstOutcomes :
                \/ o.kind = "response" /\ o.status = 200
                \/ o.kind = "response" /\ o.status = 402 /\ o.body = Body402(ReqsA, JUndef)},
   nonces |-> Nonces,
   signer |-> {o \in SignerOutcomes : o.kind \in {"signed", "signThrows"}},
   verify |-> {o \in VerifyOutcomes :
                 /\ o.kind = "response" /\ o.body.parse = "ok"
                 /\ o.body.isValid.t = "boolean" /\ o.body.is_valid.t = "undefined"
                 /\ o.body.payer.t = "string" \/ o.body.invalidReason = JStr("bad signature")},
   settle |-> {o \in SettleOutcomes :
                 /\ o.kind = "response"
                 /\ \/ o.status = 503
                    \/ /\ o.body.parse = "ok" /\ o.body.success = JBool(TRUE)
                       /\ o.body.transaction = JStr("0xEEE")},
   retry |-> {o \in RetryOutcomes : o.kind = "reject" \/ o.status = 200}]

ConcInit ==
  /\ setup = ConcurrentSetup
  /\ InitState

ConcSpec == ConcInit /\ [][Next]_vars

(* ---------------------------------------------------------------------- *)
(* Properties                                                              *)
(* ---------------------------------------------------------------------- *)
Count(i, step) == Cardinality({k \in DOMAIN log[i] : log[i][k].step = step})
Steps(i) == [k \in DOMAIN log[i] |-> log[i][k].step]
IsPrefix(a, b) == Len(a) <= Len(b) /\ a = SubSeq(b, 1, Len(a))
ErrorBody(msg) == "{\"error\":\"" \o msg \o "\"}"
IsSynthetic(r, status, msg) ==
  /\ r.kind = "response"
  /\ r.value.src = "synthetic"
  /\ r.value.status = status
  /\ r.value.body.text = ErrorBody(msg)
SignerFailed(i) == signerRes[i] # NoValue /\ signerRes[i].kind # "signed"
VerifyReturned(i) == verifyRes[i] # NoValue /\ ~verifyRes[i].threw
SettleReturned(i) == settleRes[i] # NoValue /\ ~settleRes[i].threw
SettledWithTransaction(i) ==
  /\ SettleReturned(i)
  /\ settleRes[i].value.success
  /\ Truthy(settleRes[i].value.transaction)

\* C1: an invocation whose first response is not a 402 makes exactly one
\* outbound request (the original one), never invokes the signer or the
\* facilitator, and returns that first response unchanged.
C1_NonPaymentPassThrough ==
  \A i \in Calls :
    (first[i] # NoValue /\ first[i].status # 402) =>
      /\ pc[i] = "Done"
      /\ Steps(i) = <<"request">>
      /\ result[i] = [kind |-> "response", value |-> first[i]]

C1_Witness ==
  \E i \in Calls :
    /\ first[i] # NoValue /\ first[i].status = 500
    /\ pc[i] = "Done" /\ result[i].value.status = 500

\* C2: after a 402 carrying requirements, a signature, a valid verify and a
\* settle that succeeded with transaction T, the original request is
\* re-issued exactly once with header x402-payment = T, and what the retry
\* answers is returned as it is, a second 402 included, with no second payment.
C2_PaidRetry ==
  \A i \in Calls :
    (/\ reqs[i] # NoValue /\ Truthy(reqs[i])
     /\ signerRes[i] # NoValue /\ signerRes[i].kind = "signed"
     /\ VerifyReturned(i) /\ verifyRes[i].value.isValid
     /\ SettledWithTransaction(i)) =>
      LET T == settleRes[i].value.transaction.v
          ev == log[i][Len(log[i])] IN
      /\ Steps(i) = <<"request", "sign", "verify", "settle", "retry">>
      /\ ev.input = call[i].input
      /\ <<"x402-payment", T>> \in ev.init.headers.h
      /\ \A h \in ev.init.headers.h : h[1] = "x402-payment" => h[2] = T
      /\ pc[i] \in {"Retrying", "Done", "Thrown"}
      /\ pc[i] = "Done" =>
           /\ result[i].kind = "response"
           /\ result[i].value \in RetryOutcomes

C2_Witness ==
  \E i \in Calls :
    /\ SettledWithTransaction(i) /\ settleRes[i].value.transaction = JStr("0xFFF")
    /\ pc[i] = "Done" /\ result[i].value.status = 402
    /\ result[i].value.src = "retry"
    /\ Count(i, "retry") = 1

\* C3: whenever verify returned isValid = false, whatever the cause, the
\* wrapper returns a synthetic 402 whose body is
\* {error: "x402 verify failed: <invalidReason>"}, and neither /settle is
\* requested nor the original request re-issued.
C3_VerifyFailure ==
  \A i \in Calls :
    (VerifyReturned(i) /\ ~verifyRes[i].value.isValid) =>
      /\ pc[i] = "Failed"
      /\ IsSynthetic(result[i], 402,
           "x402 verify failed: " \o JToString(verifyRes[i].value.invalidReason))
      /\ Count(i, "settle") = 0
      /\ Count(i, "retry") = 0

C3_Witness ==
  \E i \in Calls :
    /\ VerifyReturned(i) /\ ~verifyRes[i].value.isValid
    /\ verifyNet[i] # NoValue /\ verifyNet[i].kind = "response"
    /\ verifyNet[i].status = 200
    /\ IsSynthetic(result[i], 402, "x402 verify failed: bad signature")

\* C4: a 402 whose body is not JSON, or carries neither paymentRequirements
\* nor requirements, yields a synthetic 500 with body
\* {error: "402 without payment requirements"}; the signer and the
\* facilitator are not used and the request is not re-issued.
C4_NoRequirements ==
  \A i \in Calls :
    (/\ first[i] # NoValue /\ first[i].status = 402
     /\ \/ first[i].body.parse = "fail"
        \/ /\ first[i].body.paymentRequirements = JUndef
           /\ first[i].body.requirements = JUndef) =>
      /\ pc[i] = "Failed"
      /\ IsSynthetic(result[i], 500, "402 without payment requirements")
      /\ Steps(i) = <<"request">>
      /\ signerRes[i] = NoValue /\ verifyRes[i] = NoValue /\ settleRes[i] = NoValue

C4_Witness ==
  \E i \in Calls :
    /\ first[i] # NoValue /\ first[i].status = 402
    /\ first[i].body.parse = "ok"
    /\ first[i].body.paymentRequirements = JUndef
    /\ first[i].body.requirements = JUndef
    /\ pc[i] = "Failed"

\* C5: when settle returned success = false, or success = true without a
\* transaction identifier, the wrapper returns a synthetic 500 with body
\* {error: "x402 settle failed: <errorReason>"} and does not re-issue the
\* request; a request carrying x402-payment is only ever sent with the
\* transaction identifier of a successful settlement.
C5_SettleFailure ==
  \A i \in Calls :
    /\ (SettleReturned(i) /\ ~SettledWithTransaction(i)) =>
         /\ pc[i] = "Failed"
         /\ IsSynthetic(result[i], 500,
              "x402 settle failed: " \o JToString(settleRes[i].value.errorReason))
         /\ Count(i, "retry") = 0
    /\ \A k \in DOMAIN log[i] :
         (log[i][k].step = "retry") =>
           /\ SettledWithTransaction(i)
           /\ \A h \in log[i][k].init.headers.h :
                h[1] = "x402-payment" => h[2] = settleRes[i].value.transaction.v

C5_Witness ==
  \E i \in Calls :
    /\ SettleReturned(i)
    /\ settleRes[i].value.success
    /\ ~Truthy(settleRes[i].value.transaction)
    /\ IsSynthetic(result[i], 500, "x402 settle failed: undefined")

\* C6: when the signer fails (address lookup or typed-data signing), no
\* payload is returned, x402Fetch throws the signer's error instead of
\* returning a response, and neither /verify nor /settle is requested nor
\* the request re-issued.
C6_SignerFailurePropagates ==
  \A i \in Calls :
    SignerFailed(i) =>
      /\ pc[i] = "Thrown"
      /\ result[i] = [kind |-> "throw", error |-> signerRes[i].error]
      /\ payload[i] = NoValue
      /\ Steps(i) = <<"request", "sign">>

C6_Witness ==
  \E i \in Calls :
    /\ signerRes[i] # NoValue /\ signerRes[i].kind = "addressThrows"
    /\ pc[i] = "Thrown" /\ result[i].kind = "throw"

FirstFetchRejected(i) == Steps(i) = <<"request">> /\ first[i] = NoValue
RetryFetchRejected(i) == Len(log[i]) > 0 /\ log[i][Len(log[i])].step = "retry"

\* C7 as stated: x402Fetch throws only when the signer fails.
C7_ThrowsOnlyOnSignerFailure ==
  \A i \in Calls : pc[i] = "Thrown" => SignerFailed(i)

\* C7, amended: x402Fetch throws only when the signer fails or when the
\* fetch of the original or of the retried request itself rejects; a status
\* other than 402, an unusable 402 body, a failed verify and a failed settle
\* all end in a response object.
C7_ThrowsOnlyOnSignerOrFetchRejection ==
  \A i \in Calls :
    /\ pc[i] = "Thrown" =>
         /\ result[i].kind = "throw"
         /\ SignerFailed(i) \/ FirstFetchRejected(i) \/ RetryFetchRejected(i)
    /\ pc[i] \in {"Done", "Failed"} => result[i].kind = "response"
    /\ (verifyNet[i] # NoValue /\ pc[i] \in Terminal /\ Count(i, "settle") = 0) =>
         result[i].kind = "response"
    /\ (settleNet[i] # NoValue /\ pc[i] \in Terminal /\ Count(i, "retry") = 0) =>
         result[i].kind = "response"

C7_Witness ==
  \E i \in Calls :
    /\ pc[i] = "Thrown" /\ RetryFetchRejected(i)
    /\ ~SignerFailed(i)
    /\ result[i] = [kind |-> "throw", error |-> Exception("TypeError", "fetch failed")]

PaymentSteps == <<"request", "sign", "verify", "settle", "retry">>
Ordered(i) ==
  /\ IsPrefix(Steps(i), PaymentSteps)
  /\ Count(i, "settle") > 0 => (VerifyReturned(i) /\ verifyRes[i].value.isValid)
  /\ Count(i, "retry") > 0 => SettledWithTransaction(i)

\* C8: the outbound actions of an invocation are a prefix of original
\* request, signature, POST /verify, POST /settle, retried request, in that
\* order; /settle is requested only after verify returned isValid = true,
\* the retry only after settle succeeded with a transaction; and, the
\* awaited calls settling, every invocation ends.
C8_OrderedSingleShot ==
  /\ [](\A i \in Calls : Ordered(i))
  /\ \A i \in Calls : (pc[i] = "Initial") ~> (pc[i] \in Terminal)

C8_Witness ==
  \E i \in Calls : Steps(i) = PaymentSteps /\ pc[i] = "Done"

IsNon2xx(net) == net # NoValue /\ net.kind = "response" /\ ~(net.status \in 200..299)
IsRejected(net) == net # NoValue /\ net.kind = "reject"
RejectionText(net) ==
  IF net.error.message # "" THEN net.error.message ELSE net.error.name
\* normalising the payload threw before any request, or a 2xx body was not JSON
RaisedBesidesFetch(net) ==
  \/ net = NoValue
  \/ net.kind = "response" /\ net.status \in 200..299 /\ net.body.parse = "fail"
HttpReason(net) == JStr("HTTP " \o ToString(net.status) \o ": " \o net.statusText)
HasPrefix(reason, prefix) == reason.t = "string" /\ StartsWith(reason.v, prefix)

\* C9: verify and settle never throw.  A non-2xx answer gives
\* {isValid: false, invalidReason: "HTTP <status>: <statusText>"}, resp.
\* {success: false, network: requirements.network, errorReason: "HTTP ..."};
\* an exception while building or sending the request or reading the answer
\* gives isValid / success false with reason "Network error: <message>".
C9_FacilitatorClientNeverThrows ==
  \A i \in Calls :
    /\ verifyRes[i] # NoValue =>
         /\ ~verifyRes[i].threw
         /\ IsNon2xx(verifyNet[i]) =>
              /\ ~verifyRes[i].value.isValid
              /\ verifyRes[i].value.invalidReason = HttpReason(verifyNet[i])
         /\ IsRejected(verifyNet[i]) =>
              /\ ~verifyRes[i].value.isValid
              /\ verifyRes[i].value.invalidReason =
                   JStr("Network error: " \o RejectionText(verifyNet[i]))
         /\ RaisedBesidesFetch(verifyNet[i]) =>
              /\ ~verifyRes[i].value.isValid
              /\ HasPrefix(verifyRes[i].value.invalidReason, "Network error: ")
    /\ settleRes[i] # NoValue =>
         /\ ~settleRes[i].threw
         /\ IsNon2xx(settleNet[i]) =>
              /\ ~settleRes[i].value.success
              /\ settleRes[i].value.network = reqs[i].network
              /\ settleRes[i].value.errorReason = HttpReason(settleNet[i])
         /\ IsRejected(settleNet[i]) =>
              /\ ~settleRes[i].value.success
              /\ settleRes[i].value.network = reqs[i].network
              /\ settleRes[i].value.errorReason =
                   JStr("Network error: " \o RejectionText(settleNet[i]))
         /\ RaisedBesidesFetch(settleNet[i]) =>
              /\ ~settleRes[i].value.success
              /\ HasPrefix(settleRes[i].value.errorReason, "Network error: ")

C9_Witness ==
  \E i \in Calls :
    /\ IsRejected(settleNet[i]) /\ settleNet[i].error.message = ""
    /\ SettleReturned(i)
    /\ settleRes[i].value.errorReason = JStr("Network error: Error")
    /\ VerifyReturned(i)

Answered2xxJson(net) ==
  /\ net # NoValue /\ net.kind = "response"
  /\ net.status \in 200..299 /\ net.body.parse = "ok"
VerifyFailedWith(i) == VerifyReturned(i) /\ ~verifyRes[i].value.isValid
SettleFailedWith(i) == SettleReturned(i) /\ ~settleRes[i].value.success

\* C10 as stated: the reason of a failed verify/settle starts with "HTTP "
\* exactly when the facilitator answered non-2xx and with "Network error: "
\* exactly when a transport-level exception occurred.
C10_PrefixExactlyIdentifiesCause ==
  \A i \in Calls :
    /\ VerifyFailedWith(i) =>
         /\ HasPrefix(verifyRes[i].value.invalidReason, "HTTP ") <=> IsNon2xx(verifyNet[i])
         /\ HasPrefix(verifyRes[i].value.invalidReason, "Network error: ")
              <=> IsRejected(verifyNet[i])
    /\ SettleFailedWith(i) =>
         /\ HasPrefix(settleRes[i].value.errorReason, "HTTP ") <=> IsNon2xx(settleNet[i])
         /\ HasPrefix(settleRes[i].value.errorReason, "Network error: ")
              <=> IsRejected(settleNet[i])

\* C10, amended: a non-2xx answer always gives a reason starting with
\* "HTTP "; every exception raised inside verify/settle (a rejected fetch,
\* but also a 2xx body that is not JSON or a payload that cannot be
\* normalised) gives a reason starting with "Network error: "; on a 2xx
\* JSON answer the reason is the facilitator's own text, passed through
\* unchanged, whatever it starts with.  So a reason with neither prefix is
\* always the facilitator's own, while a prefixed one need not name the cause.
C10_PrefixFollowsCause ==
  \A i \in Calls :
    /\ VerifyFailedWith(i) =>
         LET r == verifyRes[i].value.invalidReason
             net == verifyNet[i] IN
         /\ IsNon2xx(net) => HasPrefix(r, "HTTP ")
         /\ (IsRejected(net) \/ RaisedBesidesFetch(net)) => HasPrefix(r, "Network error: ")
         /\ Answered2xxJson(net) =>
              /\ r \in {net.body.invalidReason, net.body.invalid_reason}
              /\ Truthy(net.body.invalidReason) => r = net.body.invalidReason
         /\ (~HasPrefix(r, "HTTP ") /\ ~HasPrefix(r, "Network error: ")) =>
              Answered2xxJson(net)
    /\ SettleFailedWith(i) =>
         LET r == settleRes[i].value.errorReason
             net == settleNet[i] IN
         /\ IsNon2xx(net) => HasPrefix(r, "HTTP ")
         /\ (IsRejected(net) \/ RaisedBesidesFetch(net)) => HasPrefix(r, "Network error: ")
         /\ Answered2xxJson(net) =>
              /\ r \in {net.body.errorReason, net.body.error_reason}
              /\ Truthy(net.body.errorReason) => r = net.body.errorReason
         /\ (~HasPrefix(r, "HTTP ") /\ ~HasPrefix(r, "Network error: ")) =>
              Answered2xxJson(net)

C10_Witness ==
  \E i \in Calls :
    /\ VerifyFailedWith(i) /\ Answered2xxJson(verifyNet[i])
    /\ verifyRes[i].value.invalidReason = JStr("Network error: rpc down")
    /\ pc[i] = "Failed"

AcceptedUrl(u) == StartsWith(u, "http://") \/ StartsWith(u, "https://")
FacilitatorPosts(i) ==
  {k \in DOMAIN log[i] : log[i][k].step \in {"verify", "settle"}}
PostUrl(i, k) == log[i][k].request.url
PostPath(i, k) == "/" \o log[i][k].step
WithoutLastSlash(u) ==
  IF Len(u) > 0 /\ SubSeq(u, Len(u), Len(u)) = "/" THEN SubSeq(u, 1, Len(u) - 1) ELSE u

\* C11 as stated: a URL that is neither http:// nor https:// makes the
\* constructor throw and no request is ever made; for every accepted URL
\* verify and settle POST to a URL ending in /verify resp. /settle with a
\* single slash at the join.
C11_SingleSlashAtJoin ==
  /\ ~AcceptedUrl(setup.cfg.url) =>
       /\ facilitator.threw
       /\ \A i \in Calls : log[i] = <<>> /\ pc[i] = "idle"
  /\ AcceptedUrl(setup.cfg.url) =>
       /\ ~facilitator.threw
       /\ \A i \in Calls : \A k \in FacilitatorPosts(i) :
            /\ EndsWith(PostUrl(i, k), PostPath(i, k))
            /\ ~EndsWith(PostUrl(i, k), "/" \o PostPath(i, k))

\* C11, amended: a URL that is neither http:// nor https:// makes the
\* constructor throw and no request is ever made; for an accepted URL exactly
\* one trailing slash is stripped, so verify and settle POST to the URL
\* without its last slash followed by /verify resp. /settle, and the join has
\* a single slash whenever the URL given ends in at most one slash.
C11_OneTrailingSlashStripped ==
  /\ ~AcceptedUrl(setup.cfg.url) =>
       /\ facilitator.threw
       /\ \A i \in Calls : log[i] = <<>> /\ pc[i] = "idle"
  /\ AcceptedUrl(setup.cfg.url) =>
       /\ ~facilitator.threw
       /\ \A i \in Calls : \A k \in FacilitatorPosts(i) :
            /\ PostUrl(i, k) = WithoutLastSlash(setup.cfg.url) \o PostPath(i, k)
            /\ ~EndsWith(setup.cfg.url, "//") =>
                 ~EndsWith(PostUrl(i, k), "/" \o PostPath(i, k))

C11_Witness ==
  /\ setup.cfg.url = "https://f.example/"
  /\ \E i \in Calls : \E k \in FacilitatorPosts(i) :
       log[i][k].step = "settle" /\ PostUrl(i, k) = "https://f.example/settle"

\* C12: verify returns isValid = true exactly when the facilitator answered
\* 2xx with a JSON body whose isValid or is_valid is truthy; then payer is the
\* body's payer and invalidReason is the body's invalidReason or, when that
\* is absent (falsy), its invalid_reason. On every other path (non-2xx,
\* exception, both flags falsy or missing) isValid is false.
C12_VerifyValidOnlyOn2xxTruthyFlag ==
  \A i \in Calls : VerifyReturned(i) =>
    LET r == verifyRes[i].value
        net == verifyNet[i] IN
    /\ r.isValid \in BOOLEAN
    /\ r.isValid <=>
         /\ Answered2xxJson(net)
         /\ Truthy(net.body.isValid) \/ Truthy(net.body.is_valid)
    /\ r.isValid =>
         /\ r.payer = net.body.payer
         /\ r.invalidReason =
              IF Truthy(net.body.invalidReason) THEN net.body.invalidReason
              ELSE net.body.invalid_reason

C12_Witness ==
  \E i \in Calls :
    /\ VerifyReturned(i) /\ verifyRes[i].value.isValid
    /\ ~Truthy(verifyNet[i].body.isValid) /\ Truthy(verifyNet[i].body.is_valid)
    /\ verifyRes[i].value.payer = JStr("0xDDD")
    /\ verifyRes[i].value.invalidReason = JStr("legacy")

Digits == <<"0", "1", "2", "3", "4", "5", "6", "7", "8", "9">>
DigitValue(c) == (CHOOSE d \in 1..10 : Digits[d] = c) - 1
IsDecimalString(s) ==
  /\ Len(s) > 0
  /\ \A k \in 1..Len(s) : \E d \in 1..10 : Digits[d] = SubSeq(s, k, k)
RECURSIVE DecimalValue(_)
DecimalValue(s) ==
  IF Len(s) = 0 THEN 0
  ELSE 10 * DecimalValue(SubSeq(s, 1, Len(s) - 1)) + DigitValue(SubSeq(s, Len(s), Len(s)))
\* an amount is a number or a string of decimal digits
IsAmount(x) ==
  \/ x.t = "number"
  \/ x.t = "string" /\ IsDecimalString(x.v)
AmountOf(x) == IF x.t = "number" THEN x.v ELSE DecimalValue(x.v)
\* a > b on numbers: false as soon as one side is NaN or undefined
JGreater(a, b) == a.t = "number" /\ b.t = "number" /\ a.v > b.v
AuthorizationOf(i) == payload[i].payload.authorization

\* C13 as stated: every Authorization createPaymentPayload produces, also
\* from requirements supplied by the resource server, has
\* validBefore > validAfter and value <= requirements.maxAmountRequired.
C13_AuthorizationWithinBounds ==
  \A i \in Calls : payload[i] # NoValue =>
    /\ JGreater(AuthorizationOf(i).validBefore, AuthorizationOf(i).validAfter)
    /\ IsAmount(AuthorizationOf(i).value) /\ IsAmount(reqs[i].maxAmountRequired)
    /\ AmountOf(AuthorizationOf(i).value) <= AmountOf(reqs[i].maxAmountRequired)

Populated(x) == x.t \notin {"undefined", "NaN"} /\ (x.t = "string" => x.v # "")
WellFormed(r) ==
  /\ r # NoValue
  /\ \A f \in {"network", "asset", "payTo", "maxAmountRequired", "relayerContract"} :
       Populated(r[f])
  /\ JGreater(r.maxTimeoutSeconds, JNum(0))

\* C14 as stated: for every successful createPaymentPayload call on
\* well-formed requirements every field of the Authorization (from, to,
\* value, validAfter, validBefore, nonce) is populated and the signature is
\* non-empty, whichever signer type is passed in (an ethers Wallet or any
\* other Signer).
C14_EveryFieldPopulated ==
  \A i \in Calls : (payload[i] # NoValue /\ WellFormed(reqs[i])) =>
    /\ \A f \in {"from", "to", "value", "validAfter", "validBefore", "nonce"} :
         AuthorizationOf(i)[f].t # "undefined" /\ AuthorizationOf(i)[f].t # "NaN"
    /\ Populated(AuthorizationOf(i).from)
    /\ Populated(AuthorizationOf(i).nonce)
    /\ Populated(payload[i].payload.signature)

\* C15 as stated: the built payload has validAfter = 0, validBefore = (seconds
\* at build time) + maxTimeoutSeconds, from = the signer's address,
\* to = payTo, value = maxAmountRequired, inside an envelope with
\* x402Version = 1, scheme = "exact", network = requirements.network and
\* token = requirements.asset.
C15_PayloadFieldsFromRequirements ==
  \A i \in Calls : payload[i] # NoValue =>
    /\ AuthorizationOf(i).validAfter = JNum(0)
    /\ \E t \in 1000..now :
         AuthorizationOf(i).validBefore = JAdd(JNum(t), reqs[i].maxTimeoutSeconds)
    /\ AuthorizationOf(i).from = call[i].wallet.getAddress
    /\ AuthorizationOf(i).to = reqs[i].payTo
    /\ AuthorizationOf(i).value = reqs[i].maxAmountRequired
    /\ payload[i].x402Version = JNum(1)
    /\ payload[i].scheme = JStr("exact")
    /\ payload[i].network = reqs[i].network
    /\ payload[i].token = reqs[i].asset

\* C17 as stated: verify and settle POST {paymentPayload, paymentRequirements}
\* where paymentPayload is the input payload with authorization.value,
\* validAfter and validBefore as decimal strings and every other field
\* unchanged, paymentRequirements is passed through unchanged, the caller's
\* payload is not modified, and within one x402Fetch the body sent to /settle
\* equals the body sent to /verify.
C17_NormalizedBodyFrame ==
  \A i \in Calls : \A k \in FacilitatorPosts(i) :
    LET body == log[i][k].request.body
        sent == body.paymentPayload
        a == sent.payload.authorization IN
    /\ DOMAIN body = {"paymentPayload", "paymentRequirements"}
    /\ body.paymentRequirements = reqs[i]
    /\ \A f \in {"value", "validAfter", "validBefore"} :
         /\ a[f].t = "string" /\ IsDecimalString(a[f].v)
         /\ IsAmount(AuthorizationOf(i)[f])
         /\ DecimalValue(a[f].v) = AmountOf(AuthorizationOf(i)[f])
    /\ [sent EXCEPT
          !.payload.authorization.value = AuthorizationOf(i).value,
          !.payload.authorization.validAfter = AuthorizationOf(i).validAfter,
          !.payload.authorization.validBefore = AuthorizationOf(i).validBefore]
         = payload[i]
    /\ \A m \in FacilitatorPosts(i) : log[i][m].request.body = body

RetryEvents(i) == {k \in DOMAIN log[i] : log[i][k].step = "retry"}

\* C18 as stated: the retried request is the original request plus the
\* payment header: same URL, method and body, and its headers are all of the
\* original request's headers (given through init or carried by a Request
\* passed as input) with x402-payment added.
C18_RetryIsOriginalPlusHeader ==
  \A i \in Calls : \A k \in RetryEvents(i) :
    LET original == EffectiveRequest(log[i][1].input, log[i][1].init)
        retried == EffectiveRequest(log[i][k].input, log[i][k].init) IN
    /\ retried.url = original.url
    /\ retried.method = original.method
    /\ retried.body = original.body
    /\ retried.headers =
         HeadersSet(original.headers, "x402-payment", settleRes[i].value.transaction.v)

\* everything invocation i holds
Invocation(i) ==
  <<pc[i], call[i], first[i], reqs[i], pending[i], signerRes[i], payload[i],
    verifyNet[i], verifyRes[i], settleNet[i], settleRes[i], log[i], result[i]>>
\* what invocation i settles with when it runs alone against the answers it got
SoloResults(i) ==
  IF first[i] = NoValue
  THEN {ThrowError(o.error) : o \in {x \in setup.first : x.kind = "reject"}}
  ELSE IF ~IsPaymentRequired(first[i]) THEN {ReturnResponse(first[i])}
  ELSE LET r == ParseRequirements(first[i].body) IN
  IF ~Truthy(r) THEN {ReturnResponse(NoRequirementsResponse)}
  ELSE IF signerRes[i].kind # "signed" THEN {ThrowError(signerRes[i].error)}
  ELSE LET v == verify(payload[i], r, verifyNet[i]) IN
  IF v.threw THEN {ThrowError(v.error)}
  ELSE IF VerifyFailed(v.value) THEN {ReturnResponse(VerifyFailedResponse(v.value))}
  ELSE LET st == settle(payload[i], r, settleNet[i]) IN
  IF st.threw THEN {ThrowError(st.error)}
  ELSE IF SettleFailed(st.value) THEN {ReturnResponse(SettleFailedResponse(st.value))}
  ELSE {IF o.kind = "reject" THEN ThrowError(o.error) ELSE ReturnResponse(o) :
          o \in setup.retry}
\* the authorization of i is built from i's own call, requirements and signer answer
OwnPayload(i) ==
  payload[i] # NoValue =>
    /\ \E t \in 1000..now : \E n \in setup.nonces :
         payload[i] = createPaymentPayload(reqs[i],
                        FromAddress(call[i].builder, call[i].wallet),
                        t, n, signerRes[i]).value
    /\ \A k \in FacilitatorPosts(i) :
         log[i][k].request = FacilitatorRequest(facilitator.value, PostPath(i, k),
                                                payload[i], reqs[i])
    /\ \A k \in RetryEvents(i) :
         /\ log[i][k].input = call[i].input
         /\ log[i][k].init = RetryInit(call[i].init,
                               settle(payload[i], reqs[i], settleNet[i]).value.transaction)
Independent(i) ==
  /\ pc[i] \in Terminal => result[i] \in SoloResults(i)
  /\ pc[i] \notin Terminal => result[i] = NoValue
  /\ OwnPayload(i)
OneInvocationMoves ==
  \E i \in Calls : \A j \in Calls \ {i} : Invocation(j)' = Invocation(j)

\* C19: concurrent x402Fetch invocations sharing one FacilitatorClient and one
\* signer are independent: under every interleaving each invocation settles
\* with what it would settle with when run alone against the same answers,
\* it sends its own authorization and nonce, a step of one invocation changes
\* nothing another invocation holds, and the FacilitatorClient's
\* configuration is never modified after construction.
C19_ConcurrentInvocationsIndependent ==
  /\ [](\A i \in Calls : Independent(i))
  /\ [][facilitator' = facilitator /\ setup' = setup /\ OneInvocationMoves]_vars

C19_Witness ==
  \E i, j \in Calls :
    /\ i # j
    /\ pc[i] = "Done" /\ Count(i, "retry") = 1 /\ result[i].kind = "response"
    /\ pc[j] = "Verifying"
    /\ AuthorizationOf(i).nonce # AuthorizationOf(j).nonce

LacksTypedData(i) == call[i] # NoValue /\ ~call[i].wallet.signTypedData
NotSupported == Exception("Error", "signTypedData not supported by this wallet provider")

\* C20 as stated: a signer without the typed-data signing capability fails
\* fast: the first use of the payment-aware fetch ends in an exception,
\* never in a response and never silently.
C20_MissingCapabilityFailsFast ==
  \A i \in Calls : (LacksTypedData(i) /\ pc[i] \in Terminal) =>
    pc[i] = "Thrown" /\ result[i].kind = "throw"

\* C20, amended: a signer without the typed-data signing capability is not
\* detected by calls that need no payment; the first time a payment is
\* attempted (a 402 carrying requirements) the payment-aware fetch throws
\* "signTypedData not supported by this wallet provider": no payload is
\* built, no facilitator request and no retry is made, and no synthetic
\* response stands for the error. A call that ends without an exception
\* never asked the signer.
C20_MissingCapabilityThrowsWhenPaying ==
  \A i \in Calls : LacksTypedData(i) =>
    /\ payload[i] = NoValue
    /\ \A k \in DOMAIN log[i] : log[i][k].step \in {"request", "sign"}
    /\ (pc[i] \in Terminal /\ Count(i, "sign") > 0) =>
         pc[i] = "Thrown" /\ result[i] = ThrowError(NotSupported)
    /\ pc[i] \in {"Done", "Failed"} =>
         /\ Count(i, "sign") = 0
         /\ result[i] \in {ReturnResponse(first[i]), ReturnResponse(NoRequirementsResponse)}

C20_Witness ==
  \E i \in Calls :
    /\ LacksTypedData(i)
    /\ Steps(i) = <<"request", "sign">>
    /\ pc[i] = "Thrown" /\ result[i] = ThrowError(NotSupported)

(* ---------------------------------------------------------------------- *)
(* Session keys: SessionKeyManager and SessionKeyWallet                     *)
(* ---------------------------------------------------------------------- *)
DaySeconds == 86400
MaxDays == 2
NumCallers == 2
MaxCalls == 3
Callers == 1..NumCallers

UpperCase == "ABCDEFGHIJKLMNOPQRSTUVWXYZ"
LowerCase == "abcdefghijklmnopqrstuvwxyz"
LowerChar(c) ==
  IF \E k \in 1..Len(UpperCase) : SubSeq(UpperCase, k, k) = c
  THEN LET k == CHOOSE k \in 1..Len(UpperCase) : SubSeq(UpperCase, k, k) = c
       IN SubSeq(LowerCase, k, k)
  ELSE c
\* String.prototype.toLowerCase
RECURSIVE ToLowerCase(_)
ToLowerCase(s) ==
  IF Len(s) = 0 THEN ""
  ELSE LowerChar(SubSeq(s, 1, 1)) \o ToLowerCase(SubSeq(s, 2, Len(s)))

\* Array.prototype.join(sep) on strings
RECURSIVE Join(_, _)
Join(list, sep) ==
  IF Len(list) = 0 THEN ""
  ELSE IF Len(list) = 1 THEN list[1]
  ELSE list[1] \o sep \o Join(Tail(list), sep)

\* Array.prototype.includes
Includes(list, x) == \E k \in DOMAIN list : list[k] = x

Pad6(n) ==
  LET d == ToString(n) IN SubSeq("000000", 1, 6 - Len(d)) \o d
\* (Number(amount) / 1e6).toFixed(6) + ' USDT'
formatUSDT(amount) ==
  ToString(amount \div 1000000) \o "." \o Pad6(amount % 1000000) \o " USDT"

\* BigInt(s) of a decimal string, and bigint.toString()
BigIntOf(s) == DecimalValue(s)
JSONStringify(list) == [json |-> list]
JSONParse(text) == text.json
JNull == [t |-> "null"]

\* what callers ask for
SessionKeyConstraints(perTx, perDay, validFor, contracts) ==
  [maxSpendPerTx |-> perTx, maxSpendPerDay |-> perDay,
   validForSeconds |-> validFor, whitelistedContracts |-> contracts]
ConstraintSamples ==
  {SessionKeyConstraints(6, 10, 2 * DaySeconds, <<"0xAAA">>),
   SessionKeyConstraints(7, 6, DaySeconds, <<"0xAAA", "0xbbb">>)}
\* addresses Wallet.createRandom() may give
KeyAddresses == {"0xKeyA"}
Transaction(to, value) == [to |-> to, value |-> value]
TransactionSamples ==
  {Transaction(JStr("0xAAA"), JNum(3)), Transaction(JStr("0xAAA"), JNum(6)),
   Transaction(JStr("0xAAA"), JNum(7)), Transaction(JStr("0xaaa"), JUndef),
   Transaction(JStr("0xBAD"), JNum(3)), Transaction(JUndef, JNum(3))}
\* transactions handed to validateTransaction directly
DirectSamples ==
  {Transaction(JStr("0xAAA"), JNum(3)), Transaction(JStr("0xAAA"), JNum(6))}

\* the SessionKey object createSessionKey builds and returns
NewSessionKey(address, constraints, nowSec) ==
  [t |-> "object",
   address |-> address,
   validUntil |-> nowSec + constraints.validForSeconds,
   maxSpendPerTx |-> constraints.maxSpendPerTx,
   maxSpendPerDay |-> constraints.maxSpendPerDay,
   spentToday |-> 0,
   lastResetTime |-> nowSec,
   whitelistedContracts |->
     [k \in DOMAIN constraints.whitelistedContracts |->
        ToLowerCase(constraints.whitelistedContracts[k])],
   createdAt |-> nowSec,
   revoked |-> FALSE]

\* the row createSessionKey hands to db.create
StoredRow(sessionKey) ==
  [address |-> ToLowerCase(sessionKey.address),
   validUntil |-> sessionKey.validUntil,
   maxSpendPerTx |-> ToString(sessionKey.maxSpendPerTx),
   maxSpendPerDay |-> ToString(sessionKey.maxSpendPerDay),
   spentToday |-> "0",
   lastResetTime |-> sessionKey.lastResetTime,
   whitelistedContracts |-> JSONStringify(sessionKey.whitelistedContracts),
   createdAt |-> sessionKey.createdAt,
   revoked |-> FALSE]

\* db.findOne({ address })
FindOne(rows, address) ==
  IF address \in DOMAIN rows /\ rows[address] # NoValue THEN rows[address] ELSE JNull

\* db.update({ address }, data): every matching row gets the new fields
UpdateRows(rows, address, data) ==
  [a \in DOMAIN rows |->
     IF a = address /\ rows[a] # NoValue
     THEN [f \in DOMAIN rows[a] \cup DOMAIN data |->
             IF f \in DOMAIN data THEN data[f] ELSE rows[a][f]]
     ELSE rows[a]]

\* getSessionKey(address)
getSessionKey(rows, address) ==
  LET key == FindOne(rows, ToLowerCase(address)) IN
  IF key = JNull THEN JNull
  ELSE [t |-> "object",
        address |-> key.address,
        validUntil |-> key.validUntil,
        maxSpendPerTx |-> BigIntOf(key.maxSpendPerTx),
        maxSpendPerDay |-> BigIntOf(key.maxSpendPerDay),
        spentToday |-> BigIntOf(key.spentToday),
        lastResetTime |-> key.lastResetTime,
        whitelistedContracts |-> JSONParse(key.whitelistedContracts),
        createdAt |-> key.createdAt,
        revoked |-> key.revoked]

\* updateDailySpend(address, newSpent, resetTime)
updateDailySpend(rows, address, newSpent, resetTime) ==
  UpdateRows(rows, ToLowerCase(address),
             [spentToday |-> ToString(newSpent), lastResetTime |-> resetTime])

\* revokeSessionKey(address)
revokeSessionKey(rows, address) ==
  UpdateRows(rows, ToLowerCase(address), [revoked |-> TRUE])

Invalid(reason) == [valid |-> FALSE, reason |-> JStr(reason)]
Valid == [valid |-> TRUE, reason |-> JUndef]

\* the object SessionKeyWallet.sendTransaction hands to validateTransaction:
\* BigInt(tx.value?.toString() || '0')
ValidatedTx(tx) ==
  [to |-> tx.to,
   value |-> BigIntOf(JToString(JOr(IF tx.value.t = "undefined" THEN JUndef
                                     ELSE JStr(JToString(tx.value)),
                                    JStr("0"))))]

\* variant: a revoked key is not looked at
validateChecksIgnoringRevocation(sessionKey, tx, nowSec) ==
  IF sessionKey = JNull THEN [next |-> "return", value |-> Invalid("Session key not found")]
  ELSE IF nowSec > sessionKey.validUntil
    THEN [next |-> "return", value |-> Invalid("Session key expired")]
  ELSE IF tx.to.t = "undefined"
    THEN [next |-> "throw",
          error |-> Exception("TypeError",
                              "Cannot read properties of undefined (reading 'toLowerCase')")]
  ELSE IF ~Includes(sessionKey.whitelistedContracts, ToLowerCase(tx.to.v))
    THEN [next |-> "return",
          value |-> Invalid("Contract " \o tx.to.v \o " not whitelisted. Allowed: "
                            \o Join(sessionKey.whitelistedContracts, ", "))]
  ELSE IF tx.value > sessionKey.maxSpendPerTx
    THEN [next |-> "return",
          value |-> Invalid("Transaction value " \o formatUSDT(tx.value)
                            \o " exceeds limit " \o formatUSDT(sessionKey.maxSpendPerTx))]
  ELSE IF (nowSec - sessionKey.lastResetTime) \div DaySeconds >= 1
    THEN [next |-> "reset"]
  ELSE [next |-> "daily"]

\* validateTransaction from the answer of getSessionKey up to the daily
\* reset: what it returns or throws, or how it goes on
validateChecks(sessionKey, tx, nowSec) ==
  IF sessionKey = JNull THEN [next |-> "return", value |-> Invalid("Session key not found")]
  ELSE IF sessionKey.revoked
    THEN [next |-> "return", value |-> Invalid("Session key has been revoked")]
  ELSE IF nowSec > sessionKey.validUntil
    THEN [next |-> "return", value |-> Invalid("Session key expired")]
  ELSE IF tx.to.t = "undefined"
    THEN [next |-> "throw",
          error |-> Exception("TypeError",
                              "Cannot read properties of undefined (reading 'toLowerCase')")]
  ELSE IF ~Includes(sessionKey.whitelistedContracts, ToLowerCase(tx.to.v))
    THEN [next |-> "return",
          value |-> Invalid("Contract " \o tx.to.v \o " not whitelisted. Allowed: "
                            \o Join(sessionKey.whitelistedContracts, ", "))]
  ELSE IF tx.value > sessionKey.maxSpendPerTx
    THEN [next |-> "return",
          value |-> Invalid("Transaction value " \o formatUSDT(tx.value)
                            \o " exceeds limit " \o formatUSDT(sessionKey.maxSpendPerTx))]
  ELSE IF (nowSec - sessionKey.lastResetTime) \div DaySeconds >= 1
    THEN [next |-> "reset"]
  ELSE [next |-> "daily"]

\* variant: the daily limit is not checked
validateDailyUnchecked(sessionKey, tx) ==
  [next |-> "update", newDailyTotal |-> sessionKey.spentToday + tx.value]

\* validateTransaction from `const newDailyTotal` on
validateDaily(sessionKey, tx) ==
  LET newDailyTotal == sessionKey.spentToday + tx.value IN
  IF newDailyTotal > sessionKey.maxSpendPerDay
  THEN [next |-> "return",
        value |-> Invalid("Daily limit exceeded. Spent: " \o formatUSDT(sessionKey.spentToday)
                          \o ", Trying: " \o formatUSDT(tx.value)
                          \o ", Limit: " \o formatUSDT(sessionKey.maxSpendPerDay))]
  ELSE [next |-> "update", newDailyTotal |-> newDailyTotal]

\* variant: the transaction is forwarded whatever the validation says
sendTransactionUnchecked(validation) ==
  [forward |-> TRUE, result |-> Returned([hash |-> "0xTX"])]

\* SessionKeyWallet.sendTransaction once validateTransaction has returned
sendTransaction(validation) ==
  IF ~validation.valid
  THEN [forward |-> FALSE,
        result |-> Thrown(Exception("Error", "Transaction rejected: "
                                               \o JToString(validation.reason)))]
  ELSE [forward |-> TRUE, result |-> Returned([hash |-> "0xTX"])]

StoredAddresses == {ToLowerCase(a) : a \in KeyAddresses}

\* a manager over an empty database
SessionKeysNew(sequential) ==
  /\ clock = 10 * DaySeconds
  /\ awaited = sequential
  /\ calls = 0
  /\ db = [a \in StoredAddresses |-> NoValue]
  /\ wallet = [a \in KeyAddresses |-> NoValue]
  /\ op = [i \in Callers |-> NoValue]
  /\ forwarded = <<>>
  /\ ledger = [a \in StoredAddresses |-> <<>>]

\* the call of caller j has not ended yet
InProgress(j) == IF op[j] = NoValue THEN FALSE ELSE op[j].pc # "settled"
\* no call is in progress
AllSettled ==
  \A j \in Callers : IF op[j] = NoValue THEN TRUE ELSE op[j].pc = "settled"
\* a caller that awaits each call starts one only when none is in progress
MayStart == awaited => AllSettled

\* a day passes (calls that race run within one second)
ClockTick ==
  /\ clock < (10 + MaxDays) * DaySeconds
  /\ ~awaited => AllSettled
  /\ clock' = clock + DaySeconds
  /\ UNCHANGED <<awaited, calls, db, wallet, op, forwarded, ledger, notSessionVars>>

\* createSessionKey(parent, constraints) and the SessionKeyWallet built on it
CreateSessionKey(a, constraints) ==
  /\ MayStart
  /\ db[ToLowerCase(a)] = NoValue
  /\ LET sessionKey == NewSessionKey(a, constraints, clock) IN
     /\ db' = [db EXCEPT ![ToLowerCase(a)] = StoredRow(sessionKey)]
     /\ wallet' = [wallet EXCEPT ![a] = sessionKey]
  /\ UNCHANGED <<clock, awaited, calls, op, forwarded, ledger, notSessionVars>>

\* revokeSessionKey(address)
RevokeSessionKey(a) ==
  /\ AllSettled
  /\ db' = revokeSessionKey(db, a)
  /\ UNCHANGED <<clock, awaited, calls, wallet, op, forwarded, ledger, notSessionVars>>

\* a call of wallet.sendTransaction(tx) or of manager.validateTransaction
\* (address, tx), up to the await on getSessionKey; callers are
\* interchangeable, the call is given the first free place
StartCall(i, kind, a, tx) ==
  /\ MayStart
  /\ \A j \in 1..(i - 1) : InProgress(j)
  /\ ~awaited => kind = "validate"
  /\ calls < MaxCalls
  /\ calls' = calls + 1
  /\ IF op[i] = NoValue THEN TRUE ELSE op[i].pc = "settled"
  /\ kind = "send" => wallet[a] # NoValue
  /\ tx \in (IF kind = "send" THEN TransactionSamples ELSE DirectSamples)
  /\ op' = [op EXCEPT ![i] =
              [kind |-> kind, key |-> a, request |-> tx, tx |-> ValidatedTx(tx),
               pc |-> "reading", startedAt |-> clock,
               sessionKey |-> getSessionKey(db, a),
               validation |-> NoValue, outcome |-> NoValue]]
  /\ UNCHANGED <<clock, awaited, db, wallet, forwarded, ledger, notSessionVars>>

\* the call of i ends: validateTransaction returned or threw r
Conclude(i, r) ==
  LET send == IF r.next = "return" THEN sendTransaction(r.value)
              ELSE [forward |-> FALSE, result |-> Thrown(r.error)]
      outcome == IF op[i].kind = "send" THEN send.result
                 ELSE IF r.next = "return" THEN Returned(r.value)
                 ELSE Thrown(r.error) IN
  /\ op' = [op EXCEPT ![i] =
              [@ EXCEPT !.pc = "settled",
                        !.validation = IF r.next = "return" THEN r.value ELSE NoValue,
                        !.outcome = outcome]]
  /\ forwarded' = IF op[i].kind = "send" /\ send.forward
                  THEN Append(forwarded, [key |-> op[i].key, tx |-> op[i].request, by |-> i])
                  ELSE forwarded
  /\ ledger' = IF r.next = "return" /\ r.value.valid
               THEN [ledger EXCEPT ![ToLowerCase(op[i].key)] = Append(@, op[i].tx.value)]
               ELSE ledger

\* the daily check on sessionKey and, when it passes, the write of the new total
CheckDaily(i, sessionKey) ==
  LET d == validateDaily(sessionKey, op[i].tx) IN
  IF d.next = "return"
  THEN /\ Conclude(i, d)
       /\ UNCHANGED db
  ELSE /\ db' = updateDailySpend(db, op[i].key, d.newDailyTotal, sessionKey.lastResetTime)
       /\ UNCHANGED ledger
       /\ op' = [op EXCEPT ![i] = [@ EXCEPT !.pc = "updating", !.sessionKey = sessionKey]]
       /\ UNCHANGED forwarded

\* getSessionKey has answered: the checks, then the reset or the daily check
Validate(i) ==
  /\ op[i] # NoValue
  /\ op[i].pc = "reading"
  /\ LET c == validateChecks(op[i].sessionKey, op[i].tx, clock) IN
     IF c.next \in {"return", "throw"}
     THEN /\ Conclude(i, c)
          /\ UNCHANGED db
     ELSE IF c.next = "reset"
     THEN /\ db' = updateDailySpend(db, op[i].key, 0, clock)
          /\ ledger' = [ledger EXCEPT ![ToLowerCase(op[i].key)] = <<>>]
          /\ op' = [op EXCEPT ![i] =
                      [@ EXCEPT !.pc = "resetting",
                                !.sessionKey = [@ EXCEPT !.spentToday = 0,
                                                         !.lastResetTime = clock]]]
          /\ UNCHANGED forwarded
     ELSE CheckDaily(i, op[i].sessionKey)
  /\ UNCHANGED <<clock, awaited, calls, wallet, notSessionVars>>

\* the reset has been written
AfterReset(i) ==
  /\ op[i] # NoValue
  /\ op[i].pc = "resetting"
  /\ CheckDaily(i, op[i].sessionKey)
  /\ UNCHANGED <<clock, awaited, calls, wallet, notSessionVars>>

\* the new total has been written: validateTransaction returns valid
AfterUpdate(i) ==
  /\ op[i] # NoValue
  /\ op[i].pc = "updating"
  /\ Conclude(i, [next |-> "return", value |-> Valid])
  /\ UNCHANGED <<clock, awaited, calls, db, wallet, notSessionVars>>

SessionNext ==
  \/ ClockTick
  \/ \E a \in KeyAddresses : \E c \in ConstraintSamples : CreateSessionKey(a, c)
  \/ \E a \in KeyAddresses : RevokeSessionKey(a)
  \/ \E i \in Callers : \E kind \in {"send", "validate"} : \E a \in KeyAddresses :
       \E tx \in TransactionSamples \cup DirectSamples : StartCall(i, kind, a, tx)
  \/ \E i \in Callers : Validate(i)
  \/ \E i \in Callers : AfterReset(i)
  \/ \E i \in Callers : AfterUpdate(i)

SessionInit ==
  /\ X402Unused /\ HelperUnused /\ ProviderUnused /\ StoreUnused
  /\ QueryUnused /\ ToolsUnused
  /\ SessionKeysNew(TRUE)
SessionSpec == SessionInit /\ [][SessionNext]_vars

(* ---------------------------------------------------------------------- *)
(* Properties of the session keys                                           *)
(* ---------------------------------------------------------------------- *)
\* the step in which the sendTransaction of caller i ends
SendEnds(i) ==
  /\ op[i] # NoValue
  /\ op[i].pc # "settled"
  /\ op[i].kind = "send"
  /\ op'[i].pc = "settled"
SentBy(i) == forwarded' = Append(forwarded, [key |-> op[i].key, tx |-> op[i].request, by |-> i])
ReturnedValid(i) == op'[i].validation # NoValue /\ op'[i].validation.valid
RejectedWithReason(i) ==
  /\ op'[i].outcome.threw
  /\ op'[i].validation # NoValue
  /\ op'[i].outcome.error.message
       = "Transaction rejected: " \o JToString(op'[i].validation.reason)
\* the key's stored row says revoked, or the call started after validUntil
RevokedOrExpired(i) ==
  LET row == db[ToLowerCase(op[i].key)] IN
  row # NoValue /\ (row.revoked \/ op[i].startedAt > row.validUntil)

\* C21: sendTransaction hands the transaction to the network only when
\* validateTransaction returned valid for it, and never for a key that is
\* revoked or was past validUntil when the call began (calls are awaited one
\* by one, so the stored row at the end of a call is the row of its start).
C21_NothingSentUnlessValid ==
  [][\A i \in Callers : SendEnds(i) =>
       IF ReturnedValid(i) /\ ~RevokedOrExpired(i)
       THEN SentBy(i) /\ ~op'[i].outcome.threw
       ELSE forwarded' = forwarded /\ op'[i].outcome.threw]_vars

\* C21: as above, and every sendTransaction that does not forward throws
\* "Transaction rejected: <reason>" with the reason validateTransaction gave.
C21_ForwardOrRejectWithReason ==
  [][\A i \in Callers : SendEnds(i) =>
       IF ReturnedValid(i) /\ ~RevokedOrExpired(i)
       THEN SentBy(i) /\ ~op'[i].outcome.threw
       ELSE forwarded' = forwarded /\ RejectedWithReason(i)]_vars

\* a revoked key and an expired key have both been refused, a valid one was sent
C21_Witness ==
  /\ Len(forwarded) > 0
  /\ op[1] # NoValue
  /\ op[1].pc = "settled"
  /\ op[1].kind = "send"
  /\ op[1].outcome.threw
  /\ op[1].outcome.error.message = "Transaction rejected: Session key has been revoked"

RECURSIVE SumSeq(_)
SumSeq(list) == IF Len(list) = 0 THEN 0 ELSE Head(list) + SumSeq(Tail(list))
SpentToday(a) == BigIntOf(db[a].spentToday)
\* the stored spend of a key is within its daily limit and, between calls,
\* is the sum of what was accepted since the last reset
SpentWithinLimit ==
  \A a \in StoredAddresses : db[a] # NoValue =>
    /\ SpentToday(a) <= BigIntOf(db[a].maxSpendPerDay)
    /\ AllSettled => SpentToday(a) = SumSeq(ledger[a])
\* a step that changes the stored spend of a key is a reset after a full day
\* or the write of a call that is then accepted
SpendChangesProperly ==
  \A a \in StoredAddresses : db[a] # NoValue /\ db'[a] # db[a] /\ db'[a].revoked = db[a].revoked =>
    \/ /\ db'[a].spentToday = "0"
       /\ db'[a].lastResetTime = clock
       /\ clock - db[a].lastResetTime >= DaySeconds
    \/ \E i \in Callers :
         /\ op[i] # NoValue
         /\ op[i].pc # "updating"
         /\ op'[i].pc = "updating"
         /\ BigIntOf(db'[a].spentToday) = SpentToday(a) + op[i].tx.value
         /\ db'[a].lastResetTime = db[a].lastResetTime
\* a call ends accepted when it wrote a new total, and writes nothing in the
\* step in which it ends
EndsProperly ==
  \A i \in Callers : op[i] # NoValue /\ op[i].pc # "settled" /\ op'[i].pc = "settled" =>
    /\ db' = db
    /\ op[i].pc = "updating" <=> ReturnedValid(i)

\* C23: with createSessionKey, validateTransaction and revokeSessionKey called
\* one after the other, the stored spentToday of a key never exceeds its
\* maxSpendPerDay and is the sum of the values accepted since the last reset;
\* a rejected call adds nothing, and spentToday goes back to 0 only when at
\* least 86400 seconds have passed since lastResetTime.
C23_DailySpendAccounting ==
  /\ []SpentWithinLimit
  /\ [][SpendChangesProperly /\ EndsProperly]_vars

\* after a reset, two accepted transactions fill the daily limit and a third
\* is rejected
C23_Witness ==
  \E a \in StoredAddresses :
    /\ db[a] # NoValue
    /\ db[a].lastResetTime > db[a].createdAt
    /\ Len(ledger[a]) = 2
    /\ db[a].spentToday = db[a].maxSpendPerDay
    /\ op[1] # NoValue
    /\ op[1].pc = "settled"
    /\ op[1].validation # NoValue
    /\ ~op[1].validation.valid
    /\ op[1].validation.reason.v
         = "Daily limit exceeded. Spent: 0.000006 USDT, Trying: 0.000003 USDT, Limit: 0.000006 USDT"

\* SessionKeyWallet.getSessionKeyInfo(), the two flags
getSessionKeyInfo(sessionKey, nowSec) ==
  [address |-> sessionKey.address,
   isExpired |-> nowSec > sessionKey.validUntil,
   isRevoked |-> sessionKey.revoked]

\* SessionKeyWallet.isValid()
isValid(sessionKey, nowSec) ==
  ~sessionKey.revoked /\ nowSec < sessionKey.validUntil

\* what validateTransaction decides about revocation and expiry of the key
\* stored under address a
StillUsable(a) ==
  LET stored == getSessionKey(db, a) IN
  ~stored.revoked /\ ~(clock > stored.validUntil)

\* C26: isValid() of a SessionKeyWallet is true exactly when the key is still
\* usable (not revoked through revokeSessionKey, not expired); it is true iff
\* getSessionKeyInfo() has isExpired and isRevoked both false, and it agrees
\* with what sendTransaction decides about revocation and expiry.
C26_IsValidTracksUsability ==
  \A a \in KeyAddresses : wallet[a] # NoValue =>
    LET info == getSessionKeyInfo(wallet[a], clock) IN
    /\ isValid(wallet[a], clock) = StillUsable(a)
    /\ isValid(wallet[a], clock) = (~info.isExpired /\ ~info.isRevoked)

\* callers that do not await one call before making the next
SessionRaceInit ==
  /\ X402Unused /\ HelperUnused /\ ProviderUnused /\ StoreUnused
  /\ QueryUnused /\ ToolsUnused
  /\ SessionKeysNew(FALSE)
SessionRaceSpec == SessionRaceInit /\ [][SessionNext]_vars

\* C29: when validateTransaction calls for one session key interleave, the
\* stored spentToday never exceeds maxSpendPerDay, the values accepted since
\* the last reset never add up to more than maxSpendPerDay, and once the
\* calls have ended the stored spentToday is the sum of these values.
C29_NoLostUpdate ==
  \A a \in StoredAddresses : db[a] # NoValue =>
    /\ SpentToday(a) <= BigIntOf(db[a].maxSpendPerDay)
    /\ SumSeq(ledger[a]) <= BigIntOf(db[a].maxSpendPerDay)
    /\ AllSettled => SpentToday(a) = SumSeq(ledger[a])

(* ---------------------------------------------------------------------- *)
(* SessionKeyHelper                                                         *)
(* ---------------------------------------------------------------------- *)
\* SessionKeyHelper.generateSessionKey(constraints)
SessionKeyHelper_generateSessionKey(constraints, address, nowSec) ==
  [address |-> address,
   createdAt |-> nowSec,
   validUntil |-> nowSec + constraints.validForSeconds,
   maxSpendPerTx |-> constraints.maxSpendPerTx,
   maxSpendPerDay |-> constraints.maxSpendPerDay,
   whitelistedContracts |-> constraints.whitelistedContracts]

\* SessionKeyHelper.validateTransaction(sessionKey, tx, spentToday)
SessionKeyHelper_validateTransaction(sessionKey, tx, spentToday, nowSec) ==
  IF nowSec > sessionKey.validUntil THEN Invalid("Session key expired")
  ELSE IF ~Includes(sessionKey.whitelistedContracts, ToLowerCase(tx.to))
    THEN Invalid("Contract " \o tx.to \o " not whitelisted. Allowed: "
                 \o Join(sessionKey.whitelistedContracts, ", "))
  ELSE IF tx.value > sessionKey.maxSpendPerTx
    THEN Invalid("Transaction value exceeds per-transaction limit. Max: "
                 \o formatUSDT(sessionKey.maxSpendPerTx))
  ELSE IF spentToday + tx.value > sessionKey.maxSpendPerDay
    THEN Invalid("Would exceed daily limit. Spent: " \o formatUSDT(spentToday)
                 \o ", Trying: " \o formatUSDT(tx.value)
                 \o ", Limit: " \o formatUSDT(sessionKey.maxSpendPerDay))
  ELSE Valid

\* what the caller passes: targets, values and the spend it has on record
HelperTargets == {"0xAAA", "0xaaa", "0xbbb", "0xBAD"}
HelperValues == {3, 6, 7}
HelperSpent == {0, 3, 6}

HelperInit ==
  /\ X402Unused /\ SessionKeysUnused /\ ProviderUnused /\ StoreUnused
  /\ QueryUnused /\ ToolsUnused
  /\ helper = [sessionKey |-> NoValue, constraints |-> NoValue,
               now |-> 10 * DaySeconds, check |-> NoValue]

HelperGenerate(constraints, address) ==
  /\ helper.sessionKey = NoValue
  /\ helper' = [helper EXCEPT
                  !.constraints = constraints,
                  !.sessionKey = SessionKeyHelper_generateSessionKey(
                                   constraints, address, helper.now)]
  /\ UNCHANGED notHelperVars

HelperTick ==
  /\ helper.now < (10 + MaxDays) * DaySeconds
  /\ helper' = [helper EXCEPT !.now = @ + DaySeconds, !.check = NoValue]
  /\ UNCHANGED notHelperVars

HelperValidate(to, value, spentToday) ==
  /\ helper.sessionKey # NoValue
  /\ LET tx == [to |-> to, value |-> value] IN
     helper' = [helper EXCEPT !.check =
                  [tx |-> tx, spentToday |-> spentToday,
                   validation |-> SessionKeyHelper_validateTransaction(
                                    helper.sessionKey, tx, spentToday, helper.now)]]
  /\ UNCHANGED notHelperVars

HelperNext ==
  \/ \E c \in ConstraintSamples : \E a \in KeyAddresses : HelperGenerate(c, a)
  \/ HelperTick
  \/ \E to \in HelperTargets : \E v \in HelperValues : \E sp \in HelperSpent :
       HelperValidate(to, v, sp)

HelperSpec == HelperInit /\ [][HelperNext]_vars

\* the four conditions of a transaction that is within the constraints the
\* key was generated with
WithinConstraints(constraints, validUntil, tx, spentToday, nowSec) ==
  /\ Includes(constraints.whitelistedContracts, tx.to)
  /\ tx.value <= constraints.maxSpendPerTx
  /\ spentToday + tx.value <= constraints.maxSpendPerDay
  /\ nowSec <= validUntil

\* C22: SessionKeyHelper.validateTransaction returns {valid: true} exactly for
\* the transactions whose target is one of the whitelistedContracts the key
\* was generated with, whose value is at most maxSpendPerTx, whose value plus
\* spentToday is at most maxSpendPerDay and which are checked no later than
\* validUntil; every other transaction gets {valid: false} and a reason.
C22_ValidExactlyWithinConstraints ==
  helper.check # NoValue =>
    LET within == WithinConstraints(helper.constraints, helper.sessionKey.validUntil,
                                    helper.check.tx, helper.check.spentToday, helper.now)
        v == helper.check.validation IN
    IF within THEN v.valid
    ELSE ~v.valid /\ v.reason.t = "string" /\ v.reason.v # ""

(* ---------------------------------------------------------------------- *)
(* PrivyWalletProvider and SafeWalletProvider with a session key            *)
(* ---------------------------------------------------------------------- *)
\* config.sessionKey as the caller hands it over
ProviderKey(address, perTx, perDay, validUntil, contracts) ==
  [address |-> address, maxSpendPerTx |-> perTx, maxSpendPerDay |-> perDay,
   validUntil |-> validUntil, whitelistedContracts |-> contracts]
ProviderKeys ==
  {ProviderKey("0xKeyA", 6, 10, 12 * DaySeconds, <<"0xaaa">>),
   ProviderKey("0xKeyA", 7, 6, 11 * DaySeconds, <<"0xaaa", "0xbbb">>)}
\* the provider classes and config.safeAddress
ProviderConfigs ==
  {[class |-> "PrivyWalletProvider", safeAddress |-> JUndef, sessionKey |-> k] :
     k \in ProviderKeys}
  \cup {[class |-> "SafeWalletProvider", safeAddress |-> sa, sessionKey |-> k] :
          sa \in {JUndef, JStr("0xSafe")}, k \in ProviderKeys}
ProviderAddresses == {"0xKeyA", "0xSafe"}

\* getAddress()
getAddress(config) ==
  IF config.class = "SafeWalletProvider" /\ Truthy(config.safeAddress)
  THEN config.safeAddress.v
  ELSE config.sessionKey.address

\* Math.floor(now / 86400)
DayOf(nowSec) == nowSec \div DaySeconds

\* tx.value ? BigInt(tx.value.toString()) : 0n
TxValue(tx) == IF Truthy(tx.value) THEN BigIntOf(JToString(tx.value)) ELSE 0

\* validateTransaction(tx): the error it throws, or the dailySpend map it leaves
ProviderValidate(config, dailySpend, tx, nowSec) ==
  LET sessionKey == config.sessionKey
      txValue == TxValue(tx)
      address == getAddress(config)
      today == DayOf(nowSec)
      spendRecord == dailySpend[address] IN
  IF nowSec > sessionKey.validUntil
  THEN Thrown(Exception("Error", "Session key expired"))
  ELSE IF Truthy(tx.to) /\ ~Includes(sessionKey.whitelistedContracts, ToLowerCase(tx.to.v))
    THEN Thrown(Exception("Error", "Contract " \o tx.to.v \o " is not whitelisted"))
  ELSE IF txValue > sessionKey.maxSpendPerTx
    THEN Thrown(Exception("Error", "Transaction value " \o ToString(txValue)
                                   \o " exceeds per-tx limit "
                                   \o ToString(sessionKey.maxSpendPerTx)))
  ELSE IF spendRecord # NoValue /\ spendRecord.resetTime = today
    THEN IF spendRecord.amount + txValue > sessionKey.maxSpendPerDay
         THEN Thrown(Exception("Error", "Transaction would exceed daily limit. Spent today: "
                                        \o ToString(spendRecord.amount) \o ", Limit: "
                                        \o ToString(sessionKey.maxSpendPerDay)))
         ELSE Returned([dailySpend EXCEPT ![address].amount = @ + txValue])
  ELSE Returned([dailySpend EXCEPT ![address] = [amount |-> txValue, resetTime |-> today]])

\* getDailySpend()
getDailySpend(config, dailySpend) ==
  LET spendRecord == dailySpend[config.sessionKey.address] IN
  IF spendRecord = NoValue \/ spendRecord.amount = 0 THEN 0 ELSE spendRecord.amount

ProviderInit ==
  /\ X402Unused /\ SessionKeysUnused /\ HelperUnused /\ StoreUnused
  /\ QueryUnused /\ ToolsUnused
  /\ \E config \in ProviderConfigs :
       provider = [config |-> config,
                   now |-> 10 * DaySeconds,
                   calls |-> 0,
                   dailySpend |-> [a \in ProviderAddresses |-> NoValue],
                   passed |-> <<>>,
                   sent |-> <<>>,
                   last |-> NoValue]

ProviderTick ==
  /\ provider.now < (10 + MaxDays) * DaySeconds
  /\ provider' = [provider EXCEPT !.now = @ + DaySeconds]
  /\ UNCHANGED notProviderVars

\* sendTransaction(tx): validation, then the session wallet sends
ProviderSend(tx) ==
  /\ provider.calls < MaxCalls
  /\ LET v == ProviderValidate(provider.config, provider.dailySpend, tx, provider.now) IN
     provider' =
       [provider EXCEPT
          !.calls = @ + 1,
          !.dailySpend = IF v.threw THEN @ ELSE v.value,
          !.passed = IF v.threw THEN @
                     ELSE Append(@, [day |-> DayOf(provider.now), value |-> TxValue(tx)]),
          !.sent = IF v.threw THEN @ ELSE Append(@, tx),
          !.last = [tx |-> tx,
                    before |-> provider.dailySpend,
                    outcome |-> IF v.threw THEN v ELSE Returned([hash |-> "0xTX"])]]
  /\ UNCHANGED notProviderVars

ProviderNext ==
  \/ ProviderTick
  \/ \E tx \in TransactionSamples : ProviderSend(tx)

ProviderSpec == ProviderInit /\ [][ProviderNext]_vars

\* the values that passed validation during the day of nowSec
RECURSIVE PassedOn(_, _)
PassedOn(passed, day) ==
  IF Len(passed) = 0 THEN 0
  ELSE (IF Head(passed).day = day THEN Head(passed).value ELSE 0)
       + PassedOn(Tail(passed), day)
\* the amount on record for the current day
RecordedToday ==
  LET spendRecord == provider.dailySpend[getAddress(provider.config)] IN
  IF spendRecord # NoValue /\ spendRecord.resetTime = DayOf(provider.now)
  THEN spendRecord.amount ELSE 0

\* C24: the amount recorded as spent in the current day never exceeds
\* sessionKey.maxSpendPerDay; a transaction that would push the day's total
\* above the limit is rejected with an error and not sent; a rejected
\* transaction leaves the recorded amount unchanged.
C24_DailyLimitEnforced ==
  /\ [](RecordedToday <= provider.config.sessionKey.maxSpendPerDay)
  /\ [][provider'.calls # provider.calls =>
          /\ RecordedToday + TxValue(provider'.last.tx)
               > provider.config.sessionKey.maxSpendPerDay
             => provider'.last.outcome.threw /\ provider'.sent = provider.sent
          /\ provider'.last.outcome.threw => provider'.dailySpend = provider.dailySpend]_vars

\* C25: getDailySpend() returns the sum of the values of the transactions
\* that passed validation during the current day (0 when there were none),
\* which is the amount validateTransaction uses for the daily-limit check.
C25_DailySpendIsTodaysTotal ==
  /\ getDailySpend(provider.config, provider.dailySpend)
       = PassedOn(provider.passed, DayOf(provider.now))
  /\ getDailySpend(provider.config, provider.dailySpend) = RecordedToday

(* ---------------------------------------------------------------------- *)
(* The database-backed session key example                                  *)
(* ---------------------------------------------------------------------- *)
\* const oneDay = 24 * 60 * 60 * 1000, and the half day the model's clock
\* advances by
OneDayMs == 86400000
HalfDayMs == 43200000
StoreAmounts == {3, 6, 7}

\* storage.updateSpentToday(address, amount) at Date.now() = nowMs
updateSpentToday(row, amount, nowMs) ==
  [row EXCEPT !.spentToday = amount, !.lastResetTime = nowMs]

\* the row createSessionKey saves
StoreNewRow(constraints, address, nowMs) ==
  LET sessionKey == SessionKeyHelper_generateSessionKey(constraints, address,
                                                        nowMs \div 1000) IN
  [address |-> sessionKey.address,
   validUntil |-> sessionKey.validUntil,
   maxSpendPerTx |-> ToString(sessionKey.maxSpendPerTx),
   maxSpendPerDay |-> ToString(sessionKey.maxSpendPerDay),
   spentToday |-> "0",
   lastResetTime |-> nowMs,
   whitelistedContracts |-> JSONStringify(sessionKey.whitelistedContracts),
   createdAt |-> nowMs,
   revoked |-> FALSE]

\* loadSessionKey(address): the session key it returns (or null), the row it
\* leaves in the table and whether it reset the daily spend
loadSessionKey(row, nowMs) ==
  IF row = NoValue \/ row.revoked
  THEN [sessionKey |-> JNull, row |-> row, reset |-> FALSE]
  ELSE IF nowMs > row.validUntil * 1000
  THEN [sessionKey |-> JNull, row |-> row, reset |-> FALSE]
  ELSE LET reset == nowMs - row.lastResetTime > OneDayMs
           stored == IF reset THEN updateSpentToday(row, "0", nowMs) ELSE row IN
       [sessionKey |-> [t |-> "object",
                        address |-> stored.address,
                        validUntil |-> stored.validUntil,
                        maxSpendPerTx |-> BigIntOf(stored.maxSpendPerTx),
                        maxSpendPerDay |-> BigIntOf(stored.maxSpendPerDay),
                        whitelistedContracts |-> JSONParse(stored.whitelistedContracts),
                        spentToday |-> BigIntOf(stored.spentToday),
                        createdAt |-> stored.createdAt],
        row |-> stored,
        reset |-> reset]

\* validateAndUpdateSpent(address, amount): what it returns and the row it leaves
validateAndUpdateSpent(row, amount, nowMs) ==
  LET loaded == loadSessionKey(row, nowMs)
      sessionKey == loaded.sessionKey IN
  IF sessionKey = JNull
  THEN [validation |-> Invalid("Session key not found or expired"), row |-> loaded.row]
  ELSE IF amount > sessionKey.maxSpendPerTx
  THEN [validation |-> Invalid("Amount exceeds per-transaction limit ("
                               \o ToString(sessionKey.maxSpendPerTx) \o ")"),
        row |-> loaded.row]
  ELSE IF sessionKey.spentToday + amount > sessionKey.maxSpendPerDay
  THEN [validation |-> Invalid("Amount exceeds daily limit ("
                               \o ToString(sessionKey.maxSpendPerDay) \o ")"),
        row |-> loaded.row]
  ELSE [validation |-> Valid,
        row |-> updateSpentToday(loaded.row,
                                 ToString(sessionKey.spentToday + amount), nowMs)]

StoreInit ==
  /\ X402Unused /\ SessionKeysUnused /\ HelperUnused /\ ProviderUnused
  /\ QueryUnused /\ ToolsUnused
  /\ store = [now |-> OneDayMs,
              row |-> NoValue,
              calls |-> 0,
              accepted |-> <<>>,
              resetAt |-> 0,
              last |-> NoValue]

\* half a day passes
StoreTick ==
  /\ store.now < OneDayMs + 2 * MaxDays * HalfDayMs
  /\ store' = [store EXCEPT !.now = @ + HalfDayMs]
  /\ UNCHANGED notStoreVars

StoreCreateSessionKey(constraints, address) ==
  /\ store.row = NoValue
  /\ store' = [store EXCEPT !.row = StoreNewRow(constraints, address, store.now),
                            !.resetAt = store.now]
  /\ UNCHANGED notStoreVars

StoreRevoke ==
  /\ store.row # NoValue
  /\ store' = [store EXCEPT !.row = [@ EXCEPT !.revoked = TRUE]]
  /\ UNCHANGED notStoreVars

StoreValidate(amount) ==
  /\ store.calls < MaxCalls
  /\ LET loaded == loadSessionKey(store.row, store.now)
         r == validateAndUpdateSpent(store.row, amount, store.now) IN
     store' = [store EXCEPT
                 !.row = r.row,
                 !.calls = @ + 1,
                 !.accepted = IF r.validation.valid
                              THEN Append(IF loaded.reset THEN <<>> ELSE @,
                                          [at |-> store.now, amount |-> amount])
                              ELSE IF loaded.reset THEN <<>> ELSE @,
                 !.resetAt = IF loaded.reset THEN store.now ELSE @,
                 !.last = [amount |-> amount,
                           at |-> store.now,
                           loaded |-> loaded.sessionKey # JNull,
                           reset |-> loaded.reset,
                           sinceReset |-> store.now - store.resetAt,
                           spentToday |-> IF loaded.sessionKey = JNull THEN 0
                                          ELSE loaded.sessionKey.spentToday,
                           counted |-> IF loaded.reset THEN <<>> ELSE store.accepted,
                           validation |-> r.validation]]
  /\ UNCHANGED notStoreVars

StoreNext ==
  \/ StoreTick
  \/ \E c \in ConstraintSamples : \E a \in KeyAddresses : StoreCreateSessionKey(c, a)
  \/ StoreRevoke
  \/ \E amount \in StoreAmounts : StoreValidate(amount)

StoreSpec == StoreInit /\ [][StoreNext]_vars

RECURSIVE SumAmounts(_)
SumAmounts(list) ==
  IF Len(list) = 0 THEN 0 ELSE Head(list).amount + SumAmounts(Tail(list))

\* C27: at every limit check of validateAndUpdateSpent the spentToday it uses
\* is the sum of the amounts accepted since the last reset, none of these
\* amounts was accepted more than 24 hours before, and the check resets the
\* spend when more than 24 hours have passed since the previous reset.
C27_DailyResetWindow ==
  store.last # NoValue /\ store.last.loaded =>
    /\ store.last.spentToday = SumAmounts(store.last.counted)
    /\ \A k \in DOMAIN store.last.counted :
         store.last.at - store.last.counted[k].at <= OneDayMs
    /\ store.last.sinceReset > OneDayMs => store.last.reset

(* ---------------------------------------------------------------------- *)
(* FetchAIAgent.query                                                       *)
(* ---------------------------------------------------------------------- *)
\* an axios rejection: its message and, when the API answered with an error
\* body, error.response.data.error.message
AxiosError(message, apiMessage) ==
  [name |-> "AxiosError", message |-> message, apiMessage |-> apiMessage]
AxiosReject(e) == [kind |-> "reject", error |-> e]
\* a 2xx answer of /chat/completions: response.data
Completion(payment_required, payment_amount, payment_recipient, content) ==
  [payment_required |-> payment_required, payment_amount |-> payment_amount,
   payment_recipient |-> payment_recipient, content |-> content]
AxiosOk(data) == [kind |-> "response", data |-> data]

AxiosErrors ==
  {AxiosError("Request failed with status code 401", JStr("Invalid API key")),
   AxiosError("timeout of 30000ms exceeded", JUndef)}
\* content is choices[0].message.content; JUndef stands for an answer
\* without choices
QueryFirstOutcomes ==
  {AxiosReject(e) : e \in AxiosErrors}
    \cup {AxiosOk(Completion(JUndef, JUndef, JUndef, JStr("free answer"))),
          AxiosOk(Completion(JBool(FALSE), JNum(5), JStr("0xFET"), JUndef)),
          AxiosOk(Completion(JBool(TRUE), JNum(5), JStr("0xFET"), JStr("preview"))),
          AxiosOk(Completion(JBool(TRUE), JUndef, JStr("0xFET"), JStr("preview")))}
QueryPaidOutcomes ==
  {AxiosReject(e) : e \in AxiosErrors}
    \cup {AxiosOk(Completion(JUndef, JUndef, JUndef, JStr("premium answer"))),
          AxiosOk(Completion(JUndef, JUndef, JUndef, JUndef))}
\* the options argument: absent, or an object with autoPayForData
QueryOptions ==
  {JUndef} \cup {[t |-> "object", autoPayForData |-> a] :
                   a \in {JUndef, JBool(FALSE), JBool(TRUE)}}
\* options?.autoPayForData
AutoPayForData(options) ==
  IF options = JUndef THEN JUndef ELSE options.autoPayForData

\* the network the SDK is configured with
QueryNetwork ==
  [name |-> JStr("fuji"), defaultToken |-> JStr("0xUSDT"),
   verifyingContract |-> JStr("0xREL")]

\* the catch clause of query: every error is rethrown with the prefix
QueryCatch(error) ==
  LET text == IF "apiMessage" \in DOMAIN error /\ Truthy(error.apiMessage)
              THEN error.apiMessage.v ELSE error.message IN
  Thrown(Exception("Error", "Fetch.ai query failed: " \o text))

\* { response: data.choices[0].message.content, ... }
QueryAnswer(data, paymentTxHash) ==
  IF data.content = JUndef
  THEN QueryCatch(Exception("TypeError",
                            "Cannot read properties of undefined (reading '0')"))
  ELSE Returned([response |-> data.content, paymentTxHash |-> paymentTxHash])

\* result.payment_required && options?.autoPayForData
QueryPays(data, options) ==
  Truthy(data.payment_required) /\ Truthy(AutoPayForData(options))

\* the requirements object literal
QueryRequirements(data) ==
  Requirements(QueryNetwork.name, JOr(QueryNetwork.defaultToken, JStr("")),
               data.payment_recipient, JStr(JToString(data.payment_amount)),
               JNum(3600), JOr(QueryNetwork.verifyingContract, JStr("")))

\* variant: a failed verification is logged and the payment goes on
QueryAfterVerifyIgnoringResult(verifyResult) ==
  Returned("settle")

\* if (!verifyResult.isValid) throw ...
QueryAfterVerify(verifyResult) ==
  IF ~verifyResult.isValid
  THEN Thrown(Exception("Error", "Payment verification failed: "
                                 \o JToString(verifyResult.invalidReason)))
  ELSE Returned("settle")

\* if (!settleResult.success || !settleResult.transaction) throw ...
QueryAfterSettle(settleResult) ==
  IF ~settleResult.success \/ ~Truthy(settleResult.transaction)
  THEN Thrown(Exception("Error", "Payment settlement failed: "
                                 \o JToString(settleResult.errorReason)))
  ELSE Returned("retry")

QueryInit ==
  /\ X402Unused /\ SessionKeysUnused /\ HelperUnused /\ ProviderUnused
  /\ StoreUnused /\ ToolsUnused
  /\ query = [pc |-> "idle", options |-> NoValue, first |-> NoValue,
              requirements |-> NoValue, payload |-> NoValue,
              verifyResult |-> NoValue, settleResult |-> NoValue,
              log |-> <<>>, outcome |-> NoValue]

\* query(prompt, options): the first POST goes out
QueryCall(options) ==
  /\ query.pc = "idle"
  /\ query' = [query EXCEPT !.pc = "asked", !.options = options,
                            !.log = Append(@, [step |-> "ask"])]
  /\ UNCHANGED notQueryVars

\* the first POST settles
QueryFirstResponse(out) ==
  /\ query.pc = "asked"
  /\ query' =
       IF out.kind = "reject"
       THEN [query EXCEPT !.pc = "done", !.first = out, !.outcome = QueryCatch(out.error)]
       ELSE IF ~QueryPays(out.data, query.options)
       THEN [query EXCEPT !.pc = "done", !.first = out,
                          !.outcome = QueryAnswer(out.data, JUndef)]
       ELSE IF out.data.payment_amount = JUndef
       THEN [query EXCEPT !.pc = "done", !.first = out,
                          !.outcome = QueryCatch(ToStringError)]
       ELSE [query EXCEPT !.pc = "signing", !.first = out,
                          !.requirements = QueryRequirements(out.data)]
  /\ UNCHANGED notQueryVars

\* createPaymentPayload(requirements, signer, network)
QuerySign(signer, nonce) ==
  /\ query.pc = "signing"
  /\ LET built == createPaymentPayload(query.requirements,
                                       FromAddress("wallet.address", EthersWallet),
                                       1000, nonce, signer) IN
     query' =
       IF built.threw
       THEN [query EXCEPT !.pc = "done", !.log = Append(@, [step |-> "sign"]),
                          !.outcome = QueryCatch(built.error)]
       ELSE [query EXCEPT !.pc = "verifying", !.log = Append(@, [step |-> "sign"]),
                          !.payload = built.value]
  /\ UNCHANGED notQueryVars

\* facilitator.verify(payload, requirements) and the test on its result
QueryVerify(net) ==
  /\ query.pc = "verifying"
  /\ LET verifyResult == verify(query.payload, query.requirements, net).value
         go == QueryAfterVerify(verifyResult) IN
     query' =
       IF go.threw
       THEN [query EXCEPT !.pc = "done", !.log = Append(@, [step |-> "verify"]),
                          !.verifyResult = verifyResult,
                          !.outcome = QueryCatch(go.error)]
       ELSE [query EXCEPT !.pc = "settling", !.log = Append(@, [step |-> "verify"]),
                          !.verifyResult = verifyResult]
  /\ UNCHANGED notQueryVars

\* facilitator.settle(payload, requirements), the test on its result and the
\* paid POST going out
QuerySettle(net) ==
  /\ query.pc = "settling"
  /\ LET settleResult == settle(query.payload, query.requirements, net).value
         go == QueryAfterSettle(settleResult) IN
     query' =
       IF go.threw
       THEN [query EXCEPT !.pc = "done", !.log = Append(@, [step |-> "settle"]),
                          !.settleResult = settleResult,
                          !.outcome = QueryCatch(go.error)]
       ELSE [query EXCEPT !.pc = "retrying",
                          !.log = @ \o <<[step |-> "settle"],
                                         [step |-> "retry",
                                          payment_tx_hash |-> settleResult.transaction]>>,
                          !.settleResult = settleResult]
  /\ UNCHANGED notQueryVars

\* the paid POST settles
QueryPaidResponse(out) ==
  /\ query.pc = "retrying"
  /\ query' = [query EXCEPT
                 !.pc = "done",
                 !.outcome = IF out.kind = "reject" THEN QueryCatch(out.error)
                             ELSE QueryAnswer(out.data, query.settleResult.transaction)]
  /\ UNCHANGED notQueryVars

QueryNext ==
  \/ \E options \in QueryOptions : QueryCall(options)
  \/ \E out \in QueryFirstOutcomes : QueryFirstResponse(out)
  \/ \E signer \in SignerOutcomesFor(EthersWallet, SignerOutcomes) :
       \E nonce \in Nonces : QuerySign(signer, nonce)
  \/ \E net \in VerifyOutcomes : QueryVerify(net)
  \/ \E net \in SettleOutcomes : QuerySettle(net)
  \/ \E out \in QueryPaidOutcomes : QueryPaidResponse(out)

QuerySpec == QueryInit /\ [][QueryNext]_vars

QueryCount(step) ==
  Cardinality({k \in DOMAIN query.log : query.log[k].step = step})
QueryPaymentStarted == QueryCount("sign") + QueryCount("verify")
                         + QueryCount("settle") + QueryCount("retry") > 0
QueryFailed ==
  \/ query.first # NoValue /\ query.first.kind = "reject"
  \/ QueryCount("sign") = 1 /\ query.payload = NoValue
  \/ query.verifyResult # NoValue /\ ~query.verifyResult.isValid
  \/ query.settleResult # NoValue
       /\ (~query.settleResult.success \/ ~Truthy(query.settleResult.transaction))

\* C28: query makes a payment only when the first response flags
\* payment_required and the caller set autoPayForData; /settle is called at
\* most once and only after /verify returned isValid = true; the paid retry
\* is sent only after settle returned success with a transaction id; every
\* failure along the way is raised as an Error prefixed
\* "Fetch.ai query failed:", and nothing is settled after a failed verify.
C28_PaymentOnlyWhenFlaggedAndVerified ==
  /\ QueryPaymentStarted =>
       /\ query.first.kind = "response"
       /\ Truthy(query.first.data.payment_required)
       /\ Truthy(AutoPayForData(query.options))
  /\ QueryCount("settle") <= 1
  /\ QueryCount("settle") = 1 =>
       query.verifyResult # NoValue /\ query.verifyResult.isValid
  /\ QueryCount("retry") <= 1
  /\ QueryCount("retry") = 1 =>
       /\ query.settleResult # NoValue
       /\ query.settleResult.success
       /\ Truthy(query.settleResult.transaction)
  /\ query.pc = "done" /\ QueryFailed =>
       /\ query.outcome.threw
       /\ StartsWith(query.outcome.error.message, "Fetch.ai query failed:")
  /\ query.pc = "done" /\ query.outcome.threw =>
       StartsWith(query.outcome.error.message, "Fetch.ai query failed:")
  /\ QueryFailed => query.pc = "done"

\* a verification that failed ended the query with the prefixed error and
\* without a settlement
C28_Witness ==
  /\ query.pc = "done"
  /\ query.verifyResult # NoValue
  /\ ~query.verifyResult.isValid
  /\ QueryCount("settle") = 0
  /\ query.outcome.threw
  /\ query.outcome.error.message
       = "Fetch.ai query failed: Payment verification failed: bad signature"

(* ---------------------------------------------------------------------- *)
(* The LangChain tools module                                               *)
(* ---------------------------------------------------------------------- *)
LangChainToolConfig(privateKey, rpcUrl) == [privateKey |-> privateKey, rpcUrl |-> rpcUrl]
\* "not-a-key" stands for a string ethers.Wallet does not accept
ToolConfigs ==
  {LangChainToolConfig(k, u) :
     k \in {"0xKEY1", "0xKEY2", "not-a-key"},
     u \in {JUndef, JStr("https://rpc.example")}}
DefaultRpcUrl == JStr("https://api.avax-test.network/ext/bc/C/rpc")

\* new ERC8004Provider(rpcUrl, privateKey): new ethers.Wallet throws on a
\* private key it cannot parse
ERC8004ProviderNew(rpcUrl, privateKey) ==
  IF ~StartsWith(privateKey, "0x")
  THEN Thrown(Exception("TypeError", "invalid private key"))
  ELSE Returned([t |-> "object", rpcUrl |-> rpcUrl, privateKey |-> privateKey])

\* variant: the providers are built anew on every call
initializeProvidersAlways(module, config) ==
  LET made == ERC8004ProviderNew(JOr(config.rpcUrl, DefaultRpcUrl), config.privateKey) IN
  IF made.threw THEN [threw |-> TRUE, error |-> made.error, module |-> module]
  ELSE [threw |-> FALSE,
        module |-> [erc8004Provider |-> made.value,
                    moltBookProvider |-> [t |-> "object"]]]

\* initializeProviders(config) on the module's two variables
initializeProviders(module, config) ==
  LET made == IF module.erc8004Provider = JNull
              THEN ERC8004ProviderNew(JOr(config.rpcUrl, DefaultRpcUrl), config.privateKey)
              ELSE Returned(module.erc8004Provider) IN
  IF made.threw THEN [threw |-> TRUE, error |-> made.error, module |-> module]
  ELSE [threw |-> FALSE,
        module |-> [erc8004Provider |-> made.value,
                    moltBookProvider |-> IF module.moltBookProvider = JNull
                                         THEN [t |-> "object"]
                                         ELSE module.moltBookProvider]]

ToolsInit ==
  /\ X402Unused /\ SessionKeysUnused /\ HelperUnused /\ ProviderUnused
  /\ StoreUnused /\ QueryUnused
  /\ tools = [module |-> [erc8004Provider |-> JNull, moltBookProvider |-> JNull],
              calls |-> 0,
              first |-> NoValue,
              firstReturned |-> NoValue,
              last |-> NoValue,
              acted |-> NoValue]

\* getAgentTools(config)
GetAgentTools(config) ==
  /\ tools.calls < MaxCalls
  /\ LET r == initializeProviders(tools.module, config) IN
     tools' = [tools EXCEPT
                 !.module = r.module,
                 !.calls = @ + 1,
                 !.first = IF @ = NoValue THEN config ELSE @,
                 !.firstReturned = IF @ = NoValue /\ ~r.threw THEN config ELSE @,
                 !.last = [config |-> config, threw |-> r.threw],
                 !.acted = NoValue]
  /\ UNCHANGED notToolsVars

\* a tool is invoked: registerAgentTool acts through erc8004Provider
InvokeTool ==
  /\ tools.acted = NoValue
  /\ tools' = [tools EXCEPT
                 !.acted = IF tools.module.erc8004Provider = JNull
                           THEN [answer |-> "Error: Providers not initialized. Call initializeProviders() first."]
                           ELSE [answer |-> "registered",
                                 privateKey |-> tools.module.erc8004Provider.privateKey,
                                 rpcUrl |-> tools.module.erc8004Provider.rpcUrl]]
  /\ UNCHANGED notToolsVars

ToolsNext ==
  \/ \E config \in ToolConfigs : GetAgentTools(config)
  \/ InvokeTool

ToolsSpec == ToolsInit /\ [][ToolsNext]_vars

\* the tools act with the private key and RPC URL of config
ActsWith(config) ==
  /\ tools.module.erc8004Provider # JNull
  /\ tools.module.erc8004Provider.privateKey = config.privateKey
  /\ tools.module.erc8004Provider.rpcUrl = JOr(config.rpcUrl, DefaultRpcUrl)
  /\ tools.module.moltBookProvider # JNull
  /\ tools.acted # NoValue =>
       /\ tools.acted.answer = "registered"
       /\ tools.acted.privateKey = config.privateKey

\* C30 as stated: after the first getAgentTools(c1) the providers a tool acts
\* through are those built from c1, whatever later calls pass.
C30_ProvidersKeepFirstConfig ==
  tools.first # NoValue /\ tools.module.erc8004Provider # JNull => ActsWith(tools.first)

\* C30: after the first getAgentTools that returned, every later
\* getAgentTools leaves both module-level providers unchanged and the tools
\* act with that call's private key and RPC URL; a getAgentTools that threw
\* leaves both providers as they were, so that while none has returned the
\* providers are unset.
C30_ProvidersKeepFirstReturnedConfig ==
  /\ [](IF tools.firstReturned # NoValue THEN ActsWith(tools.firstReturned)
        ELSE tools.module = [erc8004Provider |-> JNull, moltBookProvider |-> JNull])
  /\ [][tools'.module # tools.module
          => tools.firstReturned = NoValue /\ ~tools'.last.threw]_vars

\* a second call with another key returned and a tool then acted with the
\* first call's key
C30_Witness ==
  /\ tools.calls >= 2
  /\ tools.firstReturned # NoValue
  /\ tools.firstReturned = tools.first
  /\ tools.last.config.privateKey # tools.first.privateKey
  /\ ~tools.last.threw
  /\ tools.acted # NoValue
  /\ tools.acted.privateKey = tools.first.privateKey

====
